---- MODULE Spec2Model ----
(***************************************************************************)
(* giga-osint: the knowledge graph store, the hybrid ranker with its       *)
(* reranker, and the RAPTOR node builder, as state machines.               *)
(*                                                                         *)
(* Every subsystem has its own next-state relation over the shared         *)
(* variables; a subsystem's specification leaves the other subsystems'     *)
(* variables unchanged.                                                    *)
(***************************************************************************)
EXTENDS Integers, Sequences, FiniteSets, TLC

VARIABLES
    G,          \* graph_store.G: the networkx graph of the singleton GraphStore
    gHist,      \* history of the add_chunk calls made so far (ghost)
    graphFile,  \* the file at settings.graph_path
    req,        \* the ingestion requests in flight: position and locals of each
    useCE,      \* retrieve.rerank._USE_CE
    hs,         \* the hybrid_search call in progress: position and locals
    rk,         \* what the rerank call in progress did, until its caller returns
    mainCol,    \* the chunk collection of the vector store
    nodesCol,   \* the RAPTOR node collection ("osint_raptor_nodes")
    nextId,     \* the node ids handed out so far (uuid4 never repeats)
    nBuilds,    \* build_nodes calls made so far
    rb,         \* the build_nodes call in progress: position and locals
    obs,        \* what the query_nodes call in progress read
    batch,      \* the ingestion batch in progress: position and locals
    fresh,      \* a GraphStore constructed anew on settings.graph_path
    lastSave,   \* the graph in memory at the last save() (ghost)
    fn,         \* the call of a function in progress: arguments and result
    chunkCol,   \* the chunk collection by content: its entries, oldest first
    ingested,   \* per document, the text and the ids of its last ingestion still stored
    up,         \* the ingestion of one document: its outcome and the store before
    pf,         \* the pull_fresh_items call in progress: arguments and result
    ec,         \* the ensure_corpus call in progress: position, locals and result
    ac,         \* the owner's last add_chunk call: arguments and the graph before
    te          \* the top_entities call in progress, and how the graph was filled

graphVars == <<G, gHist>>

ingestVars == <<graphFile, req>>

rankVars == <<useCE, hs, rk>>

raptorVars == <<mainCol, nodesCol, nextId, nBuilds, rb, obs>>

persistVars == <<batch, fresh, lastSave>>

fnVars == <<fn>>

chunkVars == <<chunkCol, ingested, up>>

pullVars == <<pf>>

corpusVars == <<ec>>

ownerVars == <<ac>>

topVars == <<te>>

(***************************************************************************)
(* Small helpers                                                           *)
(***************************************************************************)
Range(s) == {s[i] : i \in 1..Len(s)}

Min(a, b) == IF a <= b THEN a ELSE b

Max(a, b) == IF a >= b THEN a ELSE b

SeqsUpTo(S, n) == UNION {[1..m -> S] : m \in 0..n}

NoRepeat(s) == \A i, j \in 1..Len(s) : i # j => s[i] # s[j]

(***************************************************************************)
(* Knowledge graph store: index/graph/graph_store.py                       *)
(*                                                                         *)
(* G.nodes maps a node name to its attributes, G.edges maps an undirected  *)
(* edge (the set of its one or two end points) to its weight "w", G.order  *)
(* lists the nodes in the order they were inserted (the iteration order of *)
(* networkx).  Entity nodes and document nodes live in the same name       *)
(* space, as in networkx.                                                  *)
(***************************************************************************)
MaxCalls == 2

MaxEnts == 2

\* names as normalize_ent produces them: lower-cased, or a short acronym
EntityNames == {"acme corp", "FBI", "contoso"}

DocIds == {"u1", "u2"}

NoValue == ""

\* the meta argument of add_chunk: with a doc_id, with a url only, with neither
Metas ==
    {[doc_id |-> "u1", url |-> "u1"], [doc_id |-> NoValue, url |-> "u2"],
     [doc_id |-> NoValue, url |-> NoValue]}

EmptyGraph == [nodes |-> <<>>, edges |-> <<>>, order |-> <<>>]

has_node(g, n) == n \in DOMAIN g.nodes

has_edge(g, a, b) == {a, b} \in DOMAIN g.edges

Neighbors(g, n) == {m \in DOMAIN g.nodes : {n, m} \in DOMAIN g.edges}

\* nx.Graph.add_node(n, **attrs) on a node that is absent or present
add_node(g, n, attrs) ==
    [g EXCEPT !.nodes = (n :> attrs) @@ g.nodes,
              !.order = IF n \in DOMAIN g.nodes THEN @ ELSE Append(@, n)]

\* nx.Graph.add_edge(a, b, w=w): end points exist already in add_chunk
add_edgeAlone(g, a, b, w) == [g EXCEPT !.edges = ({a, b} :> w)]

add_edge(g, a, b, w) == [g EXCEPT !.edges = ({a, b} :> w) @@ g.edges]

\* lines 29-32: one iteration of "ensure entity nodes"
EnsureEntity(g, e) ==
    LET g1 == IF has_node(g, e) THEN g
              ELSE add_node(g, e, [kind |-> "entity", count |-> 0])
    IN  add_node(g1, e, [g1.nodes[e] EXCEPT !.count = @ + 1])

\* lines 37-39: one iteration of "co-mention edges"
CoMentionNoIncrement(g, x, y) == add_edge(g, x, y, 1)

CoMention(g, x, y) ==
    LET w == IF has_edge(g, x, y) THEN g.edges[{x, y}] + 1 ELSE 1
    IN  add_edge(g, x, y, w)

RECURSIVE EnsureEntities(_, _, _)
EnsureEntities(g, entities, i) ==
    IF i > Len(entities) THEN g
    ELSE EnsureEntities(EnsureEntity(g, entities[i]), entities, i + 1)

\* the double loop "for i ... for j in range(i+1, len(entities))"
RECURSIVE CoMentions(_, _, _, _)
CoMentions(g, entities, i, j) ==
    IF i > Len(entities) THEN g
    ELSE IF j > Len(entities) THEN CoMentions(g, entities, i + 1, i + 2)
    ELSE CoMentions(CoMention(g, entities[i], entities[j]), entities, i, j + 1)

\* line 42: doc = meta.get("doc_id") or meta.get("url")
MetaDoc(meta) == IF meta.doc_id # NoValue THEN meta.doc_id ELSE meta.url

DocNode(doc) == "doc::" \o doc

RECURSIVE LinkDoc(_, _, _, _)
LinkDoc(g, dnode, entities, i) ==
    IF i > Len(entities) THEN g
    ELSE LinkDoc(add_edge(g, dnode, entities[i], 1), dnode, entities, i + 1)

\* lines 41-48: "track doc node"
TrackDoc(g, entities, meta) ==
    LET doc == MetaDoc(meta)
        dnode == DocNode(doc)
        g1 == IF has_node(g, dnode) THEN g
              ELSE add_node(g, dnode, [kind |-> "doc", count |-> 0])
    IN  IF doc = NoValue THEN g ELSE LinkDoc(g1, dnode, entities, 1)

\* GraphStore.add_chunk(chunk_id, entities, meta); chunk_id is never read
add_chunk(g, entities, meta) ==
    TrackDoc(CoMentions(EnsureEntities(g, entities, 1), entities, 1, 2),
             entities, meta)

\* what the calls so far contained: per entity and per pair of entities
EmptyHist ==
    [calls |-> 0, distinct |-> TRUE,
     with |-> [e \in EntityNames |-> 0],
     both |-> [p \in {q \in SUBSET EntityNames : Cardinality(q) = 2} |-> 0]]

Record(h, entities) ==
    [calls |-> h.calls + 1,
     distinct |-> h.distinct /\ NoRepeat(entities),
     with |-> [e \in EntityNames |->
                 h.with[e] + (IF e \in Range(entities) THEN 1 ELSE 0)],
     both |-> [p \in DOMAIN h.both |->
                 h.both[p] + (IF p \subseteq Range(entities) THEN 1 ELSE 0)]]

GraphInit ==
    /\ G = EmptyGraph
    /\ gHist = EmptyHist

AddChunkCall ==
    /\ gHist.calls < MaxCalls
    /\ \E entities \in SeqsUpTo(EntityNames, MaxEnts), meta \in Metas :
          /\ G' = add_chunk(G, entities, meta)
          /\ gHist' = Record(gHist, entities)
    /\ UNCHANGED <<ingestVars, rankVars, raptorVars, persistVars, fnVars, chunkVars, pullVars, corpusVars, ownerVars, topVars>>

(***************************************************************************)
(* The graph file: joblib.dump and joblib.load of the networkx graph.  The *)
(* pickle of a Graph is its node dict (name to attributes, in insertion    *)
(* order) and its adjacency dict (node to neighbour to edge attributes);   *)
(* an edge is listed under both of its end points.                         *)
(***************************************************************************)
joblib_dump(g) ==
    [node |-> [i \in 1..Len(g.order) |->
                 [name |-> g.order[i], attrs |-> g.nodes[g.order[i]]]],
     adj |-> [n \in DOMAIN g.nodes |->
                 [m \in Neighbors(g, n) |-> [w |-> g.edges[{n, m}]]]]]

\* the edges of an adjacency dict: the pairs {n, m} with m listed under n
AdjEdges(adj) == UNION {{{n, m} : m \in DOMAIN adj[n]} : n \in DOMAIN adj}

joblib_loadNoWeights(p) ==
    [nodes |-> [n \in {p.node[i].name : i \in 1..Len(p.node)} |->
                  (CHOOSE x \in Range(p.node) : x.name = n).attrs],
     edges |-> [e \in AdjEdges(p.adj) |-> 1],
     order |-> [i \in 1..Len(p.node) |-> p.node[i].name]]

joblib_load(p) ==
    [nodes |-> [n \in {p.node[i].name : i \in 1..Len(p.node)} |->
                  (CHOOSE x \in Range(p.node) : x.name = n).attrs],
     edges |-> [e \in AdjEdges(p.adj) |->
                  LET a == CHOOSE n \in e : TRUE
                      b == CHOOSE m \in e : e = {a, m}
                  IN  p.adj[a][b].w],
     order |-> [i \in 1..Len(p.node) |-> p.node[i].name]]

\* the file before the first save
NoFile == [state |-> "absent", g |-> joblib_dump(EmptyGraph)]

\* GraphStore.save
save(g) == [state |-> "ok", g |-> joblib_dump(g)]

\* GraphStore.__init__: the graph of a store constructed on the file
\* (of a file that exists but does not load, state "corrupt", g keeps what
\* was written before the damage)
GraphStoreTrusting(file) ==
    IF file.state = "absent" THEN EmptyGraph ELSE joblib_load(file.g)

GraphStore(file) ==
    IF file.state = "ok" THEN joblib_load(file.g) ELSE EmptyGraph

(***************************************************************************)
(* Ingestion requests: app/api.py, ingest.  The endpoint is a plain "def", *)
(* so the server runs each request on a worker thread; the requests share  *)
(* the singleton graph_store and nothing in ingest, add_chunk or save      *)
(* takes a lock.  A thread can be preempted between the read and the       *)
(* write of one Python statement, so add_chunk is taken statement part by  *)
(* statement part.  The document part of add_chunk and joblib.dump are     *)
(* each taken as one step.                                                 *)
(***************************************************************************)
Requests == {1, 2}

\* extract_entities returns names without repeats; add_chunk is called only
\* for a non-empty list (api.py line 106)
IngestEntityLists ==
    {s \in SeqsUpTo(EntityNames, 2) : Len(s) > 0 /\ NoRepeat(s)}

IngestMetas == {[doc_id |-> d, url |-> d] : d \in DocIds}

IdleRequest ==
    [pc |-> "idle", entities |-> <<>>, meta |-> [doc_id |-> NoValue, url |-> NoValue],
     i |-> 0, j |-> 0, tmp |-> 0]

IngestInit ==
    /\ graphFile = NoFile
    /\ req = [t \in Requests |-> IdleRequest]

\* where the co-mention loop goes after the pair (i, j)
NextPair(r) ==
    IF r.j < Len(r.entities) THEN [r EXCEPT !.j = @ + 1, !.pc = "edge_read"]
    ELSE IF r.i + 1 < Len(r.entities)
         THEN [r EXCEPT !.i = @ + 1, !.j = r.i + 2, !.pc = "edge_read"]
         ELSE [r EXCEPT !.pc = "doc"]

\* api.py lines 104-115: the request reaches graph_store.add_chunk
StartIngest(t) ==
    /\ req[t].pc = "idle"
    /\ \E entities \in IngestEntityLists, meta \in IngestMetas :
          req' = [req EXCEPT ![t] = [pc |-> "check", entities |-> entities,
                                     meta |-> meta, i |-> 1, j |-> 0, tmp |-> 0]]
    /\ UNCHANGED <<G, graphFile, gHist, rankVars, raptorVars, persistVars, fnVars, chunkVars, pullVars, corpusVars, ownerVars, topVars>>

\* graph_store.py line 30: if not self.G.has_node(e)
CheckNode(t) ==
    /\ req[t].pc = "check"
    /\ req' = [req EXCEPT ![t].pc =
                 IF has_node(G, req[t].entities[req[t].i]) THEN "read" ELSE "add"]
    /\ UNCHANGED <<G, graphFile, gHist, rankVars, raptorVars, persistVars, fnVars, chunkVars, pullVars, corpusVars, ownerVars, topVars>>

\* line 31: self.G.add_node(e, kind="entity", count=0)
AddNode(t) ==
    /\ req[t].pc = "add"
    /\ G' = add_node(G, req[t].entities[req[t].i], [kind |-> "entity", count |-> 0])
    /\ req' = [req EXCEPT ![t].pc = "read"]
    /\ UNCHANGED <<graphFile, gHist, rankVars, raptorVars, persistVars, fnVars, chunkVars, pullVars, corpusVars, ownerVars, topVars>>

\* line 32, right-hand side: int(self.G.nodes[e].get("count", 0)) + 1
ReadCount(t) ==
    /\ req[t].pc = "read"
    /\ req' = [req EXCEPT ![t].tmp = G.nodes[req[t].entities[req[t].i]].count + 1,
                          ![t].pc = "write"]
    /\ UNCHANGED <<G, graphFile, gHist, rankVars, raptorVars, persistVars, fnVars, chunkVars, pullVars, corpusVars, ownerVars, topVars>>

\* line 32, the store into self.G.nodes[e]["count"]
WriteCount(t) ==
    /\ req[t].pc = "write"
    /\ LET r == req[t]
           e == r.entities[r.i]
       IN  /\ G' = add_node(G, e, [G.nodes[e] EXCEPT !.count = r.tmp])
           /\ req' = [req EXCEPT ![t] =
                        IF r.i < Len(r.entities)
                        THEN [r EXCEPT !.i = @ + 1, !.pc = "check"]
                        ELSE IF Len(r.entities) >= 2
                             THEN [r EXCEPT !.i = 1, !.j = 2, !.pc = "edge_read"]
                             ELSE [r EXCEPT !.pc = "doc"]]
    /\ UNCHANGED <<graphFile, gHist, rankVars, raptorVars, persistVars, fnVars, chunkVars, pullVars, corpusVars, ownerVars, topVars>>

\* line 38: w = self.G.edges[a,b]["w"] + 1 if self.G.has_edge(a,b) else 1
ReadEdge(t) ==
    /\ req[t].pc = "edge_read"
    /\ LET r == req[t]
           a == r.entities[r.i]
           b == r.entities[r.j]
       IN  req' = [req EXCEPT ![t].tmp = IF has_edge(G, a, b)
                                         THEN G.edges[{a, b}] + 1 ELSE 1,
                              ![t].pc = "edge_write"]
    /\ UNCHANGED <<G, graphFile, gHist, rankVars, raptorVars, persistVars, fnVars, chunkVars, pullVars, corpusVars, ownerVars, topVars>>

\* line 39: self.G.add_edge(a, b, w=w)
WriteEdge(t) ==
    /\ req[t].pc = "edge_write"
    /\ LET r == req[t]
       IN  /\ G' = add_edge(G, r.entities[r.i], r.entities[r.j], r.tmp)
           /\ req' = [req EXCEPT ![t] = NextPair(r)]
    /\ UNCHANGED <<graphFile, gHist, rankVars, raptorVars, persistVars, fnVars, chunkVars, pullVars, corpusVars, ownerVars, topVars>>

\* lines 41-48: the document node and its links
LinkDocStep(t) ==
    /\ req[t].pc = "doc"
    /\ G' = TrackDoc(G, req[t].entities, req[t].meta)
    /\ req' = [req EXCEPT ![t].pc = "save"]
    /\ UNCHANGED <<graphFile, gHist, rankVars, raptorVars, persistVars, fnVars, chunkVars, pullVars, corpusVars, ownerVars, topVars>>

\* GraphStore.save, called at api.py line 116
SaveStep(t) ==
    /\ req[t].pc = "save"
    /\ graphFile' = save(G)
    /\ lastSave' = G
    /\ req' = [req EXCEPT ![t].pc = "done"]
    /\ UNCHANGED <<G, gHist, batch, fresh, rankVars, raptorVars, fnVars, chunkVars, pullVars, corpusVars, ownerVars, topVars>>

IngestNext ==
    \E t \in Requests :
       \/ StartIngest(t)
       \/ CheckNode(t)
       \/ AddNode(t)
       \/ ReadCount(t)
       \/ WriteCount(t)
       \/ ReadEdge(t)
       \/ WriteEdge(t)
       \/ LinkDocStep(t)
       \/ SaveStep(t)

(***************************************************************************)
(* Python list and sort helpers                                            *)
(***************************************************************************)
\* the format specification 04d
Pad4(idx) ==
    IF idx < 10 THEN "000" \o ToString(idx)
    ELSE IF idx < 100 THEN "00" \o ToString(idx)
    ELSE IF idx < 1000 THEN "0" \o ToString(idx)
    ELSE ToString(idx)

\* s[:k] with Python's meaning of a negative k
PySliceAll(s, k) == s

PySlice(s, k) ==
    LET n == IF k >= 0 THEN Min(k, Len(s)) ELSE Max(0, Len(s) + k)
    IN  SubSeq(s, 1, n)

\* one insertion of a stable descending sort: x goes behind every element
\* whose key is at least its own
RECURSIVE InsertDesc(_, _, _)
InsertDesc(sorted, x, i) ==
    IF i > Len(sorted) THEN Append(sorted, x)
    ELSE IF sorted[i].key < x.key
         THEN SubSeq(sorted, 1, i - 1) \o <<x>> \o SubSeq(sorted, i, Len(sorted))
         ELSE InsertDesc(sorted, x, i + 1)

\* sorted(s, key=..., reverse=True) on records that carry their key: stable
RECURSIVE SortDescFrom(_, _, _)
SortDescFrom(sorted, s, i) ==
    IF i > Len(s) THEN sorted
    ELSE SortDescFrom(InsertDesc(sorted, s[i], 1), s, i + 1)

SortDesc(s) == SortDescFrom(<<>>, s, 1)

Perms(S) == {s \in [1..Cardinality(S) -> S] : NoRepeat(s)}

(***************************************************************************)
(* GraphStore.doc_boosts: index/graph/graph_store.py lines 137-162         *)
(* Boosts are in thousandths.                                              *)
(***************************************************************************)
\* 1.0 + math.log1p(hits), in thousandths
LogBoost(hits) ==
    CASE hits = 1 -> 1693
      [] hits = 2 -> 2099
      [] hits = 3 -> 2386
      [] OTHER -> 2609

\* doc_node.split("doc::", 1)[1]
DocOfNode(n) == CHOOSE d \in DocIds : DocNode(d) = n

DocHits(g, n, qset) ==
    Cardinality({nb \in Neighbors(g, n) : g.nodes[nb].kind = "entity" /\ nb \in qset})

\* the loop over self.G.nodes(data=True), in insertion order
RECURSIVE BoostLoop(_, _, _, _)
BoostLoop(g, qset, i, boosts) ==
    IF i > Len(g.order) THEN boosts
    ELSE LET n == g.order[i]
             hits == DocHits(g, n, qset)
         IN  IF g.nodes[n].kind = "doc" /\ hits > 0
             THEN BoostLoop(g, qset, i + 1,
                            Append(boosts, [doc |-> DocOfNode(n), key |-> LogBoost(hits)]))
             ELSE BoostLoop(g, qset, i + 1, boosts)

\* the returned dict, as the list of its items in dict order
doc_boosts(g, query_entities, k) ==
    IF Len(query_entities) = 0 THEN <<>>
    ELSE LET boosts == BoostLoop(g, Range(query_entities), 1, <<>>)
         IN  IF Len(boosts) > k THEN PySlice(SortDesc(boosts), k) ELSE boosts

InBoosts(boosts, d) == \E i \in 1..Len(boosts) : boosts[i].doc = d

BoostOf(boosts, d) == boosts[CHOOSE i \in 1..Len(boosts) : boosts[i].doc = d].key

(***************************************************************************)
(* retrieve/temporal.py.  Weights are in thousandths.                      *)
(***************************************************************************)
default_recent_days == 30

\* what published_at holds: nothing, text that is no date, now, 30 days
\* ago, ten years ago, ten days ahead, the year 2100
PublishedAts == {NoValue, "junk", "fresh", "month", "decade", "soon", "2100"}

\* parse_ts: None for a missing or unparsable value
parse_ts(p) == IF p \in {NoValue, "junk"} THEN NoValue ELSE p

\* (now - ts) in days
PublishedDays(p) ==
    CASE p = "month" -> 30
      [] p = "decade" -> 3650
      [] p = "soon" -> -10
      [] p = "2100" -> -26000
      [] OTHER -> 0

\* math.exp raises OverflowError for an argument above 709.78
OverflowError == -1

\* math.exp(-days / horizon), in thousandths
ExpMilli(days, horizon) ==
    CASE -1000 * days > 709782 * horizon -> OverflowError
      [] days = 0 -> 1000
      [] days = 30 /\ horizon = 30 -> 368
      [] days = 30 /\ horizon = 15 -> 135
      [] days = -10 /\ horizon = 30 -> 1396
      [] days = -10 /\ horizon = 15 -> 1948
      [] OTHER -> 0

\* the result in thousandths, or OverflowError when math.exp raises
temporal_weight(meta, recent) ==
    IF parse_ts(meta.published_at) = NoValue THEN 1000
    ELSE LET days == PublishedDays(meta.published_at)
             horizon == Max(3, IF recent THEN default_recent_days \div 2
                                         ELSE default_recent_days)
             w == ExpMilli(days, horizon)
         IN  IF w = OverflowError THEN OverflowError
             ELSE Max(200, Min(1500, IF days <= 2 THEN (w * 12) \div 10 ELSE w))

(***************************************************************************)
(* Candidate metadata.  A metadata dict is a record of the keys the        *)
(* ranker reads or writes; a key that is absent has the value NoValue,     *)
(* Absent or FALSE.                                                        *)
(***************************************************************************)
Absent == -1

EmptyMeta ==
    [doc_id |-> NoValue, published_at |-> NoValue, temp_w |-> Absent,
     graph_w |-> Absent, fallback |-> FALSE, snippet |-> FALSE]

\* Python's truth value of a dict
IsEmptyMeta(m) == m = EmptyMeta

Chunks == {"c1", "c2", "c3"}

\* what the chunk store holds for a chunk: c1 and c2 are chunks of one document
StoreMeta(c) ==
    [EmptyMeta EXCEPT !.doc_id = IF c = "c3" THEN "u2" ELSE "u1",
                      !.published_at = IF c = "c3" THEN "fresh" ELSE "month"]

(***************************************************************************)
(* retrieve/rerank.py.  The cross-encoder and the embedder are external:   *)
(* ce and emb give the score each would return for a candidate's text.     *)
(***************************************************************************)
\* the items of a list of [item, key] records, by key descending, stable
SortedItems(keyed) ==
    LET sorted == SortDesc(keyed)
    IN  [i \in 1..Len(keyed) |-> sorted[i].item]

\* lines 47 and 51: (c[2] or {}).update({"_rerank_fallback": "embed"}); an
\* empty dict is false, so the update then goes to a fresh dict
MarkFallback(meta) ==
    IF IsEmptyMeta(meta) THEN meta ELSE [meta EXCEPT !.fallback = TRUE]

\* _USE_CE after a call that started with use_ce (line 44 in the handler)
UseCEKept(use_ce, ceThrows) == use_ce

UseCEAfter(use_ce, ceThrows) == use_ce /\ ~ceThrows

RerankScore(c) == c.score

\* rerank(query, candidates): out is the returned list, use_ce the value of
\* _USE_CE afterwards, invoked whether _ce_scores was called
rerank(use_ce, candidates, ceThrows, ce, emb) ==
    IF Len(candidates) = 0
    THEN [out |-> <<>>, use_ce |-> use_ce, invoked |-> FALSE, mode |-> "none",
          raised |-> FALSE]
    ELSE LET byCE == use_ce /\ ~ceThrows
             scored == [i \in 1..Len(candidates) |->
                          [id |-> candidates[i].id,
                           meta |-> IF byCE THEN candidates[i].meta
                                    ELSE MarkFallback(candidates[i].meta),
                           score |-> IF byCE THEN ce[candidates[i].id]
                                     ELSE emb[candidates[i].id]]]
         IN  [out |-> SortedItems([i \in 1..Len(scored) |-> [item |-> scored[i], key |-> RerankScore(scored[i])]]),
              use_ce |-> UseCEAfter(use_ce, ceThrows),
              invoked |-> use_ce,
              mode |-> IF byCE THEN "ce" ELSE "embed",
              raised |-> FALSE]

(***************************************************************************)
(* retrieve/hybrid.py.  Scores are integers: score_v and score_b count,    *)
(* score_g and the weights are in thousandths.                             *)
(***************************************************************************)
VectorK == 60

BM25K == 200

PrelimN == 80

BoostK == 300

\* _vector_candidates: res is the id list store.query returned
vector_candidates(res) ==
    [i \in 1..Len(res) |->
        [id |-> res[i], meta |-> StoreMeta(res[i]),
         score_v |-> 1, score_b |-> 0, score_g |-> 0]]

BMScoreOf(x) == x.score

\* _bm25_candidates: corpus is store.fetch_all in store order, score the
\* BM25 score of each chunk; BM25Index.query sorts the indices by score
bm25_candidates(corpus, score) ==
    IF Len(corpus) = 0 THEN <<>>
    ELSE LET idx == [i \in 1..Len(corpus) |-> [id |-> corpus[i], score |-> score[corpus[i]]]]
             top == PySlice(SortedItems([i \in 1..Len(idx) |-> [item |-> idx[i], key |-> BMScoreOf(idx[i])]]), Min(BM25K, Len(corpus)))
         IN  [i \in 1..Len(top) |-> top[i].id]

\* lines 37-41: the union of the candidates
RECURSIVE UnionBMKnownOnly(_, _, _)
UnionBMKnownOnly(vec, bm, i) ==
    IF i > Len(bm) THEN vec
    ELSE UnionBMKnownOnly([j \in 1..Len(vec) |->
                             IF vec[j].id = bm[i] THEN [vec[j] EXCEPT !.score_b = @ + 1]
                             ELSE vec[j]], bm, i + 1)

RECURSIVE UnionBM(_, _, _)
UnionBM(vec, bm, i) ==
    IF i > Len(bm) THEN vec
    ELSE IF \E j \in 1..Len(vec) : vec[j].id = bm[i]
         THEN UnionBM([j \in 1..Len(vec) |->
                         IF vec[j].id = bm[i] THEN [vec[j] EXCEPT !.score_b = @ + 1]
                         ELSE vec[j]], bm, i + 1)
         ELSE UnionBM(Append(vec, [id |-> bm[i], meta |-> StoreMeta(bm[i]),
                                   score_v |-> 0, score_b |-> 1, score_g |-> 0]),
                      bm, i + 1)

\* lines 44-50: graph bias
GraphBias(vec, boosts) ==
    [i \in 1..Len(vec) |->
        LET d == vec[i].meta.doc_id
        IN  IF d # NoValue /\ InBoosts(boosts, d)
            THEN [vec[i] EXCEPT !.score_g = @ + BoostOf(boosts, d)]
            ELSE vec[i]]

\* line 55: score_v + score_b + 0.8 * score_g, in ten-thousandths
PrelimKey(c) == 10000 * c.score_v + 10000 * c.score_b + 8 * c.score_g

\* lines 60-65: temporal and graph weights go into the metadata
Reshape(prelim, recent) ==
    [i \in 1..Len(prelim) |->
        [id |-> prelim[i].id,
         meta |-> [prelim[i].meta EXCEPT
                     !.temp_w = temporal_weight(prelim[i].meta, recent),
                     !.graph_w = 1000 + Min(1000, prelim[i].score_g)]]]

\* meta.get(key, 1.0)
WeightOr1(w) == IF w = Absent THEN 1000 ELSE w

\* line 72: the final sort key
FinalKey(c) == c.score * WeightOr1(c.meta.temp_w) * WeightOr1(c.meta.graph_w)

\* lines 76-90
MakeHits(final) ==
    [i \in 1..Len(final) |->
        [id |-> final[i].id,
         meta |-> [final[i].meta EXCEPT !.snippet = TRUE, !.temp_w = Absent,
                                        !.graph_w = Absent],
         score |-> final[i].score]]

\* lines 36-65: the candidates handed to the reranker
hybrid_candidates(g, q, bias, vecRes, corpus, bmScore) ==
    LET vec0 == UnionBM(vector_candidates(vecRes), bm25_candidates(corpus, bmScore), 1)
        vec == IF bias THEN GraphBias(vec0, doc_boosts(g, q.ents, BoostK)) ELSE vec0
        prelim == PySlice(SortedItems([i \in 1..Len(vec) |-> [item |-> vec[i], key |-> PrelimKey(vec[i])]]), PrelimN)
    IN  Reshape(prelim, q.recent)

\* lines 69-91: from the reranked list to the hits
hybrid_hits(ranked, k) == MakeHits(PySlice(SortedItems([i \in 1..Len(ranked) |-> [item |-> ranked[i], key |-> FinalKey(ranked[i])]]), k))

(***************************************************************************)
(* Queries against the ranker.  One caller at a time: a hybrid_search call *)
(* (taken in two steps, up to the reranker and from the reranker on) or a  *)
(* direct rerank call, then the caller reads the result.                   *)
(***************************************************************************)
MaxK == 2

MaxCands == 2

\* the least k a caller passes: a negative one
MinK == -1

\* extract_entities(q) and whether _recent_re matches q
Queries ==
    [ents : {<<>>, <<"FBI">>, <<"FBI", "contoso">>}, recent : BOOLEAN]

\* the chunk store's content, in store order
Corpora == {<<>>, <<"c1", "c2">>, <<"c1", "c2", "c3">>}

BMScores == [Chunks -> 0..2]

CEScores == [Chunks -> {-1, 1, 2}]

EmbScores == [Chunks -> {0, 1}]

DefaultCE == [c \in Chunks |-> 1]

DefaultEmb == [c \in Chunks |-> 0]

\* the graph after ingesting one chunk of u1 and one chunk of u2
SeededGraph ==
    add_chunk(add_chunk(EmptyGraph, <<"FBI", "contoso">>, [doc_id |-> "u1", url |-> "u1"]),
              <<"FBI">>, [doc_id |-> "u2", url |-> "u2"])

\* candidate lists for a direct rerank call: metadata from the store, or empty
DirectCands ==
    {s \in SeqsUpTo([id : Chunks, meta : {EmptyMeta, StoreMeta("c1"), StoreMeta("c3")}],
                    MaxCands) :
        /\ \A i, j \in 1..Len(s) : i # j => s[i].id # s[j].id
        /\ \A i \in 1..Len(s) : s[i].meta \in {EmptyMeta, StoreMeta(s[i].id)}}

\* vec and bm: the chunk ids the vector query and BM25 returned; graphFailed:
\* the graph step raised; raised: hybrid_search raised to its caller
IdleSearch ==
    [pc |-> "idle", q |-> [ents |-> <<>>, recent |-> FALSE], k |-> 0,
     cands |-> <<>>, hits |-> <<>>, vec |-> {}, bm |-> {}, graphFailed |-> FALSE,
     raised |-> FALSE]

NoRerank ==
    [called |-> FALSE, threw |-> FALSE, invoked |-> FALSE, mode |-> "none",
     byEmbed |-> FALSE, raised |-> FALSE, out |-> <<>>]

\* what a rerank call did: r is the result of rerank
Observed(r, use_ce, ceThrows, n, emb) ==
    [called |-> TRUE, threw |-> use_ce /\ ceThrows /\ n > 0, invoked |-> r.invoked,
     mode |-> r.mode,
     byEmbed |-> \A i \in 1..Len(r.out) : r.out[i].score = emb[r.out[i].id],
     raised |-> r.raised, out |-> r.out]

RankInit ==
    /\ useCE = TRUE
    /\ hs = IdleSearch
    /\ rk = NoRerank

\* the external scorers' answers: only the scorer that is used matters, and
\* a cross-encoder that is not called cannot throw
ScorerInputs(use_ce, ceThrows, ce, emb) ==
    /\ ~use_ce => ~ceThrows
    /\ (use_ce /\ ~ceThrows) => emb = DefaultEmb
    /\ ~(use_ce /\ ~ceThrows) => ce = DefaultCE

\* the graph store has ingested documents before the queries
SeedGraph ==
    /\ hs.pc = "idle" /\ ~rk.called
    /\ G = EmptyGraph
    /\ G' = SeededGraph
    /\ UNCHANGED <<useCE, hs, rk, gHist, ingestVars, raptorVars, persistVars, fnVars, chunkVars, pullVars, corpusVars, ownerVars, topVars>>

\* hybrid_search(q, k), lines 36-65.  extract_entities and doc_boosts are
\* called only with settings.use_graph_bias and nothing catches what they
\* raise.
HybridStart ==
    /\ hs.pc = "idle" /\ ~rk.called
    /\ \E q \in Queries, k \in MinK..MaxK, bias \in BOOLEAN, corpus \in Corpora,
          bmScore \in BMScores, graphFails \in BOOLEAN :
          \E vecRes \in {<<>>} \cup {PySlice(p, VectorK) : p \in Perms(Range(corpus))},
             bmCorpus \in {<<>>, corpus} :
             /\ graphFails => bias
             /\ hs' = IF graphFails
                      THEN [IdleSearch EXCEPT
                              !.pc = "returned", !.q = q, !.k = k,
                              !.vec = Range(vecRes),
                              !.bm = Range(bm25_candidates(bmCorpus, bmScore)),
                              !.graphFailed = TRUE, !.raised = TRUE]
                      ELSE [IdleSearch EXCEPT
                              !.pc = "rerank", !.q = q, !.k = k,
                              !.cands = hybrid_candidates(G, q, bias, vecRes,
                                                          bmCorpus, bmScore),
                              !.vec = Range(vecRes),
                              !.bm = Range(bm25_candidates(bmCorpus, bmScore))]
    /\ UNCHANGED <<G, useCE, rk, gHist, ingestVars, raptorVars, persistVars, fnVars, chunkVars, pullVars, corpusVars, ownerVars, topVars>>

\* hybrid_search, lines 67-91
HybridRerank ==
    /\ hs.pc = "rerank"
    /\ \E ceThrows \in BOOLEAN, ce \in CEScores, emb \in EmbScores :
          /\ ScorerInputs(useCE, ceThrows, ce, emb)
          /\ LET r == rerank(useCE, hs.cands, ceThrows, ce, emb)
             IN  /\ useCE' = r.use_ce
                 /\ rk' = Observed(r, useCE, ceThrows, Len(hs.cands), emb)
                 /\ hs' = [hs EXCEPT !.pc = "returned", !.hits = hybrid_hits(r.out, hs.k)]
    /\ UNCHANGED <<G, gHist, ingestVars, raptorVars, persistVars, fnVars, chunkVars, pullVars, corpusVars, ownerVars, topVars>>

\* the caller has read the hits
HybridReturn ==
    /\ hs.pc = "returned"
    /\ hs' = IdleSearch
    /\ rk' = NoRerank
    /\ UNCHANGED <<G, useCE, gHist, ingestVars, raptorVars, persistVars, fnVars, chunkVars, pullVars, corpusVars, ownerVars, topVars>>

\* rerank(query, candidates) called on its own
RerankCall ==
    /\ hs.pc = "idle" /\ ~rk.called
    /\ \E candidates \in DirectCands, ceThrows \in BOOLEAN, ce \in CEScores,
          emb \in EmbScores :
          /\ ScorerInputs(useCE, ceThrows, ce, emb)
          /\ LET r == rerank(useCE, candidates, ceThrows, ce, emb)
             IN  /\ useCE' = r.use_ce
                 /\ rk' = Observed(r, useCE, ceThrows, Len(candidates), emb)
    /\ UNCHANGED <<G, hs, gHist, ingestVars, raptorVars, persistVars, fnVars, chunkVars, pullVars, corpusVars, ownerVars, topVars>>

\* the caller has read the reranked list
RerankReturn ==
    /\ hs.pc = "idle" /\ rk.called
    /\ rk' = NoRerank
    /\ UNCHANGED <<G, useCE, hs, gHist, ingestVars, raptorVars, persistVars, fnVars, chunkVars, pullVars, corpusVars, ownerVars, topVars>>

RankNext ==
    \/ SeedGraph
    \/ HybridStart
    \/ HybridRerank
    \/ HybridReturn
    \/ RerankCall
    \/ RerankReturn

(***************************************************************************)
(* RAPTOR nodes: index/raptor/builder.py, index/raptor/utils.py and        *)
(* index/vectorstore/chroma_store.py.                                      *)
(*                                                                         *)
(* mainCol is the chunk collection by size: how many chunks it holds and   *)
(* how many of them have more than 60 characters.  nodesCol is the node    *)
(* collection: a set of nodes, each with its id and the cluster label its  *)
(* text, embedding and metadata were made from.  Both collections live     *)
(* under the same client path (settings.chroma_dir).                       *)
(***************************************************************************)
MaxBuilds == 3

MaxDocsDefault == 1000

NodeFetchLimit == 1000

ChunksPerNode == 50

MinGrowth == 5

WorkingSetCap == 500

TargetSz == 24

KMax == 30

\* the sizes the chunk collection takes: total chunks, chunks over 60 chars
CorpusSizes ==
    {[total |-> 0, valid |-> 0], [total |-> 40, valid |-> 0],
     [total |-> 40, valid |-> 30], [total |-> 350, valid |-> 0],
     [total |-> 350, valid |-> 30], [total |-> 350, valid |-> 60]}

\* Python's round(n / d) for n >= 0 and d > 0: halves go to the even integer
PyRound(n, d) ==
    LET q == n \div d
        r == n % d
    IN  IF 2 * r < d THEN q
        ELSE IF 2 * r > d THEN q + 1
        ELSE IF q % 2 = 0 THEN q ELSE q + 1

\* utils.choose_k
choose_kUnclamped(n_points, target_sz, k_max) ==
    IF n_points <= target_sz THEN 1
    ELSE Max(1, PyRound(n_points, Max(5, target_sz)))

choose_k(n_points, target_sz, k_max) ==
    IF n_points <= target_sz THEN 1
    ELSE Max(1, Min(PyRound(n_points, Max(5, target_sz)), k_max))

\* builder.py lines 72-87: TRUE when the incremental build returns early.
\* (expected - existing) < max(5, existing * 0.25), times four
IncrementalSkipUnguarded(existing_node_count, current_chunk_count) ==
    LET expected_nodes == Max(1, current_chunk_count \div ChunksPerNode)
    IN  4 * (expected_nodes - existing_node_count)
           < Max(4 * MinGrowth, existing_node_count)

IncrementalSkip(existing_node_count, current_chunk_count) ==
    LET expected_nodes == Max(1, current_chunk_count \div ChunksPerNode)
    IN  /\ existing_node_count > 0
        /\ 4 * (expected_nodes - existing_node_count)
             < Max(4 * MinGrowth, existing_node_count)

\* how many of the chunks fetch_all(limit) returns can be over 60 characters
FetchedValid(main, limit) ==
    IF main.total <= limit THEN {main.valid}
    ELSE Max(0, main.valid - (main.total - limit)) .. Min(main.valid, limit)

IdleBuild ==
    [pc |-> "idle", incremental |-> FALSE, old |-> {}, node_ids |-> <<>>,
     node_texts |-> <<>>, node_embs |-> <<>>, node_metas |-> <<>>,
     failed |-> FALSE, wrote |-> FALSE, raised |-> FALSE]

NoQuery == [taken |-> FALSE, seen |-> {}, during |-> FALSE, old |-> {}, new |-> {}]

RaptorInit ==
    /\ mainCol = [total |-> 0, valid |-> 0]
    /\ nodesCol = {}
    /\ nextId = 0
    /\ nBuilds = 0
    /\ rb = IdleBuild
    /\ obs = NoQuery

NodeIds(col) == {n.id : n \in col}

\* the labels of the clusters whose summary was embedded, in cluster order
RECURSIVE Embedded(_, _, _)
Embedded(g, failing, lab) ==
    IF lab >= g THEN <<>>
    ELSE IF lab \in failing THEN Embedded(g, failing, lab + 1)
    ELSE <<lab>> \o Embedded(g, failing, lab + 1)

\* lines 155-198: the four lists after the loop over g clusters.  The id,
\* the text and the metadata of a cluster are appended before its summary
\* is embedded, the embedding after.
NodeLists(g, failing, firstId) ==
    [node_ids |-> [i \in 1..g |-> firstId + i - 1],
     node_texts |-> [i \in 1..g |-> i - 1],
     node_metas |-> [i \in 1..g |-> i - 1],
     node_embs |-> Embedded(g, failing, 0)]

\* ingestion adds chunks to the chunk collection
CorpusGrows ==
    /\ rb.pc = "idle"
    /\ \E c \in CorpusSizes :
          /\ c.total > mainCol.total /\ c.valid >= mainCol.valid
          /\ mainCol' = c
    /\ UNCHANGED <<nodesCol, nextId, nBuilds, rb, obs, graphVars, ingestVars, rankVars, persistVars, fnVars, chunkVars, pullVars, corpusVars, ownerVars, topVars>>

\* build_nodes, lines 72-198: everything before the node collection is
\* written.  The embedder and k-means are external and may fail.
BuildStart ==
    /\ rb.pc = "idle"
    /\ nBuilds < MaxBuilds
    /\ nBuilds' = nBuilds + 1
    /\ \E incremental \in BOOLEAN, embedFails \in BOOLEAN, kmeansFails \in BOOLEAN :
       \E nvalid \in FetchedValid(mainCol, MaxDocsDefault) :
          LET existing == Min(Cardinality(nodesCol), NodeFetchLimit)
              current == Min(mainCol.total, MaxDocsDefault)
              n == Min(nvalid, WorkingSetCap)
              k == choose_k(n, TargetSz, KMax)
              started == [IdleBuild EXCEPT !.incremental = incremental,
                                           !.old = NodeIds(nodesCol)]
          IN  IF incremental /\ IncrementalSkip(existing, current)
              THEN /\ ~embedFails /\ ~kmeansFails
                   /\ rb' = [started EXCEPT !.pc = "done"]
                   /\ nextId' = nextId
              ELSE IF n = 0
              THEN /\ ~embedFails /\ ~kmeansFails
                   /\ rb' = [started EXCEPT !.pc = "done"]
                   /\ nextId' = nextId
              ELSE IF embedFails \/ kmeansFails
              THEN /\ ~(embedFails /\ kmeansFails)
                   /\ rb' = [started EXCEPT !.pc = "done", !.failed = TRUE]
                   /\ nextId' = nextId
              ELSE \E g \in 1..k, failing \in SUBSET (0..(k - 1)) :
                      /\ failing \subseteq 0..(g - 1)
                      /\ LET lists == NodeLists(g, failing, nextId)
                         IN  rb' = [started EXCEPT
                                      !.pc = IF incremental THEN "reset" ELSE "upsert",
                                      !.node_ids = lists.node_ids,
                                      !.node_texts = lists.node_texts,
                                      !.node_embs = lists.node_embs,
                                      !.node_metas = lists.node_metas,
                                      !.failed = failing # {}]
                      /\ nextId' = nextId + g
    /\ UNCHANGED <<mainCol, nodesCol, obs, graphVars, ingestVars, rankVars, persistVars, fnVars, chunkVars, pullVars, corpusVars, ownerVars, topVars>>

\* line 205: self.nodes.reset(), which is self.client.reset(): everything
\* under the client path goes, the chunk collection included
BuildReset ==
    /\ rb.pc = "reset"
    /\ nodesCol' = {}
    /\ mainCol' = [total |-> 0, valid |-> 0]
    /\ rb' = [rb EXCEPT !.pc = "upsert"]
    /\ UNCHANGED <<nextId, nBuilds, obs, graphVars, ingestVars, rankVars, persistVars, fnVars, chunkVars, pullVars, corpusVars, ownerVars, topVars>>

\* ChromaStore.upsert of the four lists, position by position
UpsertedNodes(r) ==
    {[id |-> r.node_ids[i], text |-> r.node_texts[i], emb |-> r.node_embs[i],
      meta |-> r.node_metas[i]] : i \in 1..Len(r.node_ids)}

\* line 207.  The client rejects lists of unequal length.  After a reset
\* self.col is a handle from before the reset: the client may or may not
\* still accept it.  An exception other than a dimensionality error is
\* re-raised by ChromaStore.upsert and leaves build_nodes.
BuildUpsert ==
    /\ rb.pc = "upsert"
    /\ \E accepted \in BOOLEAN :
          /\ ~rb.incremental => accepted
          /\ IF accepted /\ Len(rb.node_embs) = Len(rb.node_ids)
             THEN /\ nodesCol' = {n \in nodesCol : n.id \notin Range(rb.node_ids)}
                                   \cup UpsertedNodes(rb)
                  /\ rb' = [rb EXCEPT !.pc = "done", !.wrote = TRUE]
             ELSE /\ nodesCol' = nodesCol
                  /\ rb' = [rb EXCEPT !.pc = "done", !.raised = TRUE]
    /\ UNCHANGED <<mainCol, nextId, nBuilds, obs, graphVars, ingestVars, rankVars, persistVars, fnVars, chunkVars, pullVars, corpusVars, ownerVars, topVars>>

\* build_nodes has returned (or raised) to its caller
BuildReturn ==
    /\ rb.pc = "done"
    /\ rb' = IdleBuild
    /\ UNCHANGED <<mainCol, nodesCol, nextId, nBuilds, obs, graphVars, ingestVars, rankVars, persistVars, fnVars, chunkVars, pullVars, corpusVars, ownerVars, topVars>>

\* query_nodes: the one store.query call reads the node collection
QueryNodes ==
    /\ ~obs.taken
    /\ obs' = [taken |-> TRUE, seen |-> NodeIds(nodesCol),
               during |-> rb.incremental /\ rb.pc \in {"reset", "upsert"},
               old |-> rb.old, new |-> Range(rb.node_ids)]
    /\ UNCHANGED <<mainCol, nodesCol, nextId, nBuilds, rb, graphVars, ingestVars, rankVars, persistVars, fnVars, chunkVars, pullVars, corpusVars, ownerVars, topVars>>

\* the caller of query_nodes has read the result
QueryReturn ==
    /\ obs.taken
    /\ obs' = NoQuery
    /\ UNCHANGED <<mainCol, nodesCol, nextId, nBuilds, rb, graphVars, ingestVars, rankVars, persistVars, fnVars, chunkVars, pullVars, corpusVars, ownerVars, topVars>>

RaptorNext ==
    \/ CorpusGrows
    \/ BuildStart
    \/ BuildReset
    \/ BuildUpsert
    \/ BuildReturn
    \/ QueryNodes
    \/ QueryReturn

(***************************************************************************)
(* Ingestion batches: synth/planner.py, ingest_fresh_content, and          *)
(* discover/orchestrator.py, discover_and_ingest with _ingest_document.    *)
(* Both take the documents one after the other; an exception in one        *)
(* document is caught and the loop goes on; save() is called after the     *)
(* loop when the batch counted a document (planner) or a chunk             *)
(* (orchestrator).  The fetcher, the embedder, the chunk store and the     *)
(* entity extractor are external and may raise.                            *)
(***************************************************************************)
MaxItems == 2

MaxChunks == 2

BatchKinds == {"planner", "orchestrator"}

\* extract_entities of a chunk: no entity, one, two
ChunkEntities == {<<>>, <<"FBI">>, <<"acme corp", "FBI">>}

\* the chunks of a document, each as the entities extracted from it
ItemChunks == {c \in SeqsUpTo(ChunkEntities, MaxChunks) : Len(c) > 0}

IdleBatch == [pc |-> "idle", kind |-> "planner", left |-> 0, count |-> 0, applied |-> 0]

\* "Update graph with entities": the loop over the chunks, which an
\* exception leaves at chunk stop (stop > Len(chunks): no exception)
RECURSIVE GraphUpdate(_, _, _, _, _)
GraphUpdate(g, chunks, meta, i, stop) ==
    IF i > Len(chunks) \/ i >= stop THEN g
    ELSE GraphUpdate(IF Len(chunks[i]) > 0 THEN add_chunk(g, chunks[i], meta) ELSE g,
                     chunks, meta, i + 1, stop)

RECURSIVE RecordUpdate(_, _, _, _)
RecordUpdate(h, chunks, i, stop) ==
    IF i > Len(chunks) \/ i >= stop THEN h
    ELSE RecordUpdate(IF Len(chunks[i]) > 0 THEN Record(h, chunks[i]) ELSE h,
                      chunks, i + 1, stop)

\* what a document that went through adds to the batch's counter:
\* docs_ingested += 1, or ingested_chunks += chunks_added
Counted(kind, chunks) == IF kind = "planner" THEN 1 ELSE Len(chunks)

\* "if docs_ingested > 0" and "if ingested_chunks > 0"
SavesAfter(count) == count > 0

\* the batch is called with its list of items
BatchStart ==
    /\ batch.pc = "idle"
    /\ gHist.calls < MaxCalls
    /\ \E kind \in BatchKinds, n \in 0..MaxItems :
          batch' = [IdleBatch EXCEPT !.pc = "items", !.kind = kind, !.left = n]
    /\ UNCHANGED <<graphVars, ingestVars, rankVars, raptorVars, fresh, lastSave, fnVars, chunkVars, pullVars, corpusVars, ownerVars, topVars>>

\* one turn of the loop over the items.  failAt = 0: the document is
\* skipped or fails before the graph is touched; failAt = i: the step for
\* chunk i raises; failAt = Len(chunks) + 1: the document goes through.
BatchItem ==
    /\ batch.pc = "items" /\ batch.left > 0
    /\ \E chunks \in ItemChunks, d \in DocIds, failAt \in 0..(MaxChunks + 1) :
          /\ failAt <= Len(chunks) + 1
          /\ LET meta == [doc_id |-> d, url |-> d]
                 g == GraphUpdate(G, chunks, meta, 1, failAt)
             IN  /\ G' = g
                 /\ gHist' = RecordUpdate(gHist, chunks, 1, failAt)
                 /\ batch' = [batch EXCEPT
                       !.left = @ - 1,
                       !.count = IF failAt = Len(chunks) + 1
                                 THEN @ + Counted(batch.kind, chunks) ELSE @,
                       !.applied = IF g # G THEN 1 ELSE @]
    /\ UNCHANGED <<ingestVars, rankVars, raptorVars, fresh, lastSave, fnVars, chunkVars, pullVars, corpusVars, ownerVars, topVars>>

\* after the loop: "Save graph updates"
BatchFinish ==
    /\ batch.pc = "items" /\ batch.left = 0
    /\ IF SavesAfter(batch.count)
       THEN graphFile' = save(G) /\ lastSave' = G
       ELSE UNCHANGED <<graphFile, lastSave>>
    /\ batch' = [batch EXCEPT !.pc = "returned"]
    /\ UNCHANGED <<graphVars, req, rankVars, raptorVars, fresh, fnVars, chunkVars, pullVars, corpusVars, ownerVars, topVars>>

\* the caller has the batch's result
BatchReturn ==
    /\ batch.pc = "returned"
    /\ batch' = IdleBatch
    /\ UNCHANGED <<graphVars, ingestVars, rankVars, raptorVars, fresh, lastSave, fnVars, chunkVars, pullVars, corpusVars, ownerVars, topVars>>

BatchNext ==
    \/ BatchStart
    \/ BatchItem
    \/ BatchFinish
    \/ BatchReturn

(***************************************************************************)
(* Persistence of the graph.  A store is saved by its owner and a new      *)
(* GraphStore is constructed on the same path (a process start).           *)
(***************************************************************************)
\* file: the state of the file when the store was constructed
NoStore == [made |-> FALSE, G |-> EmptyGraph, file |-> "absent"]

PersistInit ==
    /\ batch = IdleBatch
    /\ fresh = NoStore
    /\ lastSave = EmptyGraph

\* the owner of the store applies a chunk of an ingested document
\* the chunks of a document the owner passes on
ChunkIndexes == {0, 1}

\* again: the call repeats the arguments of the call before it, and before
\* is then the graph it found (ghost)
NoAddChunk ==
    [made |-> FALSE, chunk_id |-> NoValue, entities |-> <<>>,
     meta |-> [doc_id |-> NoValue, url |-> NoValue], before |-> EmptyGraph,
     again |-> FALSE]

OwnerInit == ac = NoAddChunk

\* add_chunk that leaves the graph alone when it is given the chunk id of
\* the call before
AddChunkOncePerId(g, last_id, chunk_id, entities, meta) ==
    IF chunk_id = last_id THEN g ELSE add_chunk(g, entities, meta)

\* graph_store.add_chunk(chunk_id=cid, entities=..., meta=...) as the
\* ingestion paths call it; lines 26-48 never read chunk_id
AddChunkById(g, last_id, chunk_id, entities, meta) == add_chunk(g, entities, meta)

OwnerAddChunk ==
    /\ gHist.calls < MaxCalls
    /\ \E entities \in IngestEntityLists, meta \in IngestMetas, idx \in ChunkIndexes :
          LET chunk_id == meta.doc_id \o "::c" \o Pad4(idx)
              again == /\ ac.made /\ ac.chunk_id = chunk_id
                       /\ ac.entities = entities /\ ac.meta = meta
          IN  /\ G' = AddChunkById(G, ac.chunk_id, chunk_id, entities, meta)
              /\ gHist' = Record(gHist, entities)
              /\ ac' = [made |-> TRUE, chunk_id |-> chunk_id, entities |-> entities,
                        meta |-> meta, before |-> IF again THEN G ELSE EmptyGraph,
                        again |-> again]
    /\ UNCHANGED <<ingestVars, rankVars, raptorVars, persistVars, fnVars, chunkVars, pullVars, corpusVars, topVars>>

\* graph_store.save() called by the owner of the store
SaveCall ==
    /\ ~fresh.made
    /\ graphFile' = save(G)
    /\ lastSave' = G
    /\ UNCHANGED <<G, gHist, req, batch, fresh, rankVars, raptorVars, fnVars, chunkVars, pullVars, corpusVars, ownerVars, topVars>>

\* GraphStore(path) on the path of the saved file
NewStore ==
    /\ ~fresh.made
    /\ fresh' = [made |-> TRUE, G |-> GraphStore(graphFile), file |-> graphFile.state]
    /\ UNCHANGED <<graphVars, ingestVars, rankVars, raptorVars, batch, lastSave, fnVars, chunkVars, pullVars, corpusVars, ownerVars, topVars>>

\* the file is damaged on disk: it exists and joblib.load raises on it
CorruptFile ==
    /\ ~fresh.made
    /\ graphFile.state = "ok"
    /\ graphFile' = [graphFile EXCEPT !.state = "corrupt"]
    /\ UNCHANGED <<graphVars, req, rankVars, raptorVars, batch, fresh, lastSave, fnVars, chunkVars, pullVars, corpusVars, ownerVars, topVars>>

\* the new store has been looked at
DropStore ==
    /\ fresh.made
    /\ fresh' = NoStore
    /\ UNCHANGED <<graphVars, ingestVars, rankVars, raptorVars, batch, lastSave, fnVars, chunkVars, pullVars, corpusVars, ownerVars, topVars>>

PersistNext ==
    \/ OwnerAddChunk
    \/ SaveCall
    \/ NewStore
    \/ CorruptFile
    \/ DropStore

(***************************************************************************)
(* Calls of the functions that keep no state: utils.choose_k,              *)
(* temporal.temporal_weight and the incremental check at the head of       *)
(* build_nodes (builder.py lines 72-89), each on arguments drawn from the  *)
(* values its callers can pass; and GraphStore.doc_boosts on the graph as  *)
(* add_chunk calls have built it.                                          *)
(***************************************************************************)
MaxPoints == 30

MaxTarget == 7

MaxKMax == 3

MaxNodes == 21

\* a, b, c: the integer arguments; p, flag: published_at and whether the
\* query asks for recent documents; ents: the query entities; out, skip,
\* boosts: the result, by its type
NoCall ==
    [op |-> "none", a |-> 0, b |-> 0, c |-> 0, p |-> NoValue, flag |-> FALSE,
     ents |-> <<>>, out |-> 0, skip |-> FALSE, boosts |-> <<>>]

FnInit == fn = NoCall

\* the sizes of the chunk collection the incremental check is tried on
ChunkCounts ==
    {ChunksPerNode * i + j : i \in 0..(MaxNodes + 8), j \in {0, ChunksPerNode - 1}}
       \cup {5000}

CallChooseK ==
    /\ fn.op = "none"
    /\ \E n \in 0..MaxPoints, target \in -1..MaxTarget, k_max \in -1..MaxKMax :
          fn' = [NoCall EXCEPT !.op = "choose_k", !.a = n, !.b = target, !.c = k_max,
                               !.out = choose_k(n, target, k_max)]
    /\ UNCHANGED <<graphVars, ingestVars, rankVars, raptorVars, persistVars, chunkVars, pullVars, corpusVars, ownerVars, topVars>>

CallTemporalWeight ==
    /\ fn.op = "none"
    /\ \E p \in PublishedAts, recent \in BOOLEAN :
          fn' = [NoCall EXCEPT
                   !.op = "temporal_weight", !.p = p, !.flag = recent,
                   !.out = temporal_weight([EmptyMeta EXCEPT !.published_at = p], recent)]
    /\ UNCHANGED <<graphVars, ingestVars, rankVars, raptorVars, persistVars, chunkVars, pullVars, corpusVars, ownerVars, topVars>>

\* build_nodes(incremental=True) with the default max_docs, up to line 89:
\* nodes and chunks are the sizes of the two collections, skip is TRUE when
\* the call returns at line 87
CallIncrementalCheck ==
    /\ fn.op = "none"
    /\ \E nodes \in 0..MaxNodes, chunks \in ChunkCounts :
          fn' = [NoCall EXCEPT
                   !.op = "incremental", !.a = nodes, !.b = chunks,
                   !.skip = IncrementalSkip(Min(nodes, NodeFetchLimit),
                                            Min(chunks, MaxDocsDefault))]
    /\ UNCHANGED <<graphVars, ingestVars, rankVars, raptorVars, persistVars, chunkVars, pullVars, corpusVars, ownerVars, topVars>>

\* graph_store.doc_boosts(query_entities, k)
CallDocBoosts ==
    /\ fn.op = "none"
    /\ \E q \in Queries, k \in 0..MaxK :
          fn' = [NoCall EXCEPT !.op = "doc_boosts", !.ents = q.ents, !.c = k,
                               !.boosts = doc_boosts(G, q.ents, k)]
    /\ UNCHANGED <<graphVars, ingestVars, rankVars, raptorVars, persistVars, chunkVars, pullVars, corpusVars, ownerVars, topVars>>

\* the caller has the result
FnReturn ==
    /\ fn.op # "none"
    /\ fn' = NoCall
    /\ UNCHANGED <<graphVars, ingestVars, rankVars, raptorVars, persistVars, chunkVars, pullVars, corpusVars, ownerVars, topVars>>

FnNext ==
    \/ CallChooseK
    \/ CallTemporalWeight
    \/ CallIncrementalCheck
    \/ FnReturn

BoostNext ==
    \/ AddChunkCall
    \/ CallDocBoosts
    \/ FnReturn

(***************************************************************************)
(* Chunking and the chunk collection by content                            *)
(* (preprocess/chunk.py, ChromaStore.upsert, ingest_fresh_content)         *)
(*                                                                         *)
(* A text is a prefix of one article: text n is its first n sentences, and *)
(* a chunk's text is the sequence of the sentences it joins.               *)
(***************************************************************************)
MaxSents == 5

win == 6

overlap == 2

Texts == 0..MaxSents

Titles == {"t1", "t2"}

\* chunk.py line 8-13
_sentences(text) == [j \in 1..text |-> j]

\* chunk.py lines 15-26: windows of win sentences, starting every
\* max(1, win - overlap) sentences
RECURSIVE WindowsFrom(_, _)
WindowsFrom(sents, i) ==
    IF i >= Len(sents) THEN <<>>
    ELSE <<SubSeq(sents, i + 1, Min(i + win, Len(sents)))>>
            \o WindowsFrom(sents, i + Max(1, win - overlap))

sentence_windows(text) == WindowsFrom(_sentences(text), 0)

\* chunk.py lines 28-34
chunk_with_meta(doc_id, text) ==
    LET chunks == sentence_windows(text)
    IN  [i \in 1..Len(chunks) |->
            [chunk_id |-> doc_id \o "::c" \o Pad4(i - 1), ch |-> chunks[i], idx |-> i - 1]]

IndexOfId(col, id) ==
    IF \E i \in 1..Len(col) : col[i].id = id
    THEN CHOOSE i \in 1..Len(col) : col[i].id = id
    ELSE 0

\* the collection's own upsert of one entry: it appends whatever the ids
UpsertOneAppend(col, e) == Append(col, e)

\* the collection's own upsert of one entry: an entry with the id is replaced
UpsertOne(col, e) ==
    IF IndexOfId(col, e.id) > 0 THEN [col EXCEPT ![IndexOfId(col, e.id)] = e]
    ELSE Append(col, e)

RECURSIVE ColUpsert(_, _)
ColUpsert(col, entries) ==
    IF entries = <<>> THEN col
    ELSE ColUpsert(UpsertOne(col, Head(entries)), Tail(entries))

\* what the collection can raise during an upsert
StoreErrors == {"none", "dimensionality", "twice", "other"}

\* ChromaStore.upsert, lines 47-70: on a dimensionality or HNSW error the
\* collection is deleted, created again and the upsert tried once more
upsert(col, entries, err) ==
    CASE err = "none" -> [col |-> ColUpsert(col, entries), raised |-> FALSE]
      [] err = "dimensionality" -> [col |-> ColUpsert(<<>>, entries), raised |-> FALSE]
      [] err = "twice" -> [col |-> <<>>, raised |-> TRUE]
      [] OTHER -> [col |-> col, raised |-> TRUE]

\* planner.py lines 274-290: the entries of one document
DocEntries(doc_id, title, chunks) ==
    [i \in 1..Len(chunks) |->
        [id |-> chunks[i].chunk_id, text |-> chunks[i].ch,
         meta |-> [doc_id |-> doc_id, title |-> title, chunk_index |-> chunks[i].idx]]]

NeverIngested == [text |-> -1, ids |-> <<>>]

\* the ingestions whose chunks the collection still holds after an upsert
Remembered(ing, doc_id, text, ids, err) ==
    CASE err = "none" -> [ing EXCEPT ![doc_id] = [text |-> text, ids |-> ids]]
      [] err = "dimensionality" ->
            [d \in DOMAIN ing |-> IF d = doc_id THEN [text |-> text, ids |-> ids]
                                  ELSE NeverIngested]
      [] err = "twice" -> [d \in DOMAIN ing |-> NeverIngested]
      [] OTHER -> ing

IdleUpsert ==
    [pc |-> "idle", doc_id |-> NoValue, text |-> 0, ids |-> <<>>, err |-> "none",
     again |-> FALSE, first |-> <<>>, before |-> <<>>]

ChunkInit ==
    /\ chunkCol = <<>>
    /\ ingested = [d \in DocIds |-> NeverIngested]
    /\ up = IdleUpsert

\* ingest_fresh_content, lines 237-295, for one item: chunk, embed, upsert.
\* A text without a chunk is skipped (line 270); an exception leaves the
\* item (line 314).
IngestDocument ==
    /\ up.pc = "idle"
    /\ \E doc_id \in DocIds, text \in Texts, title \in Titles, err \in StoreErrors :
          LET chunks == chunk_with_meta(doc_id, text)
              ids == [i \in 1..Len(chunks) |-> chunks[i].chunk_id]
              r == upsert(chunkCol, DocEntries(doc_id, title, chunks), err)
          IN  IF chunks = <<>>
              THEN /\ up' = [IdleUpsert EXCEPT !.pc = "skipped", !.doc_id = doc_id]
                   /\ UNCHANGED <<chunkCol, ingested>>
              ELSE /\ chunkCol' = r.col
                   /\ ingested' = Remembered(ingested, doc_id, text, ids, err)
                   /\ up' = [pc |-> IF r.raised THEN "failed" ELSE "stored",
                             doc_id |-> doc_id, text |-> text, ids |-> ids, err |-> err,
                             again |-> ingested[doc_id].text = text,
                             first |-> ingested[doc_id].ids, before |-> chunkCol]
    /\ UNCHANGED <<graphVars, ingestVars, rankVars, raptorVars, persistVars, fnVars, pullVars, corpusVars, ownerVars, topVars>>

IngestDocumentReturn ==
    /\ up.pc # "idle"
    /\ up' = IdleUpsert
    /\ UNCHANGED <<chunkCol, ingested, graphVars, ingestVars, rankVars, raptorVars, persistVars, fnVars, pullVars, corpusVars, ownerVars, topVars>>

ChunkNext ==
    \/ IngestDocument
    \/ IngestDocumentReturn

(***************************************************************************)
(* Discovery of fresh items: synth/planner.py, pull_fresh_items            *)
(*                                                                         *)
(* An RSS item is its url and whether its date is absent, inside or before *)
(* the cutoff; a web result is its url.  "" is a missing or empty url.     *)
(***************************************************************************)
MaxUrls == 3

\* the least max_urls a caller passes: the request schema takes any integer
MinUrls == -1

RssItem(url, pub) == [url |-> url, pub |-> pub]

\* what pull_rss returns (a test double may repeat a url)
RssResults ==
    {<<>>,
     <<RssItem("a", "fresh")>>,
     <<RssItem("a", "none"), RssItem("b", "fresh")>>,
     <<RssItem("a", "fresh"), RssItem("x", "old"), RssItem("b", "fresh")>>,
     <<RssItem("", "fresh"), RssItem("a", "fresh")>>,
     <<RssItem("a", "fresh"), RssItem("a", "none")>>,
     <<RssItem("a", "fresh"), RssItem("b", "fresh"), RssItem("c", "fresh"),
       RssItem("d", "fresh")>>}

\* what web_searcher.discover returns for one entity
WebResults == {<<>>, <<"b", "e">>, <<"", "a", "f", "e">>}

\* seeds["entities"]
SeedEntities ==
    {<<>>, <<"FBI">>, <<"FBI", "contoso">>, <<"FBI", "contoso", "acme corp", "x">>}

Fresh(url, method) == [url |-> url, discovery_method |-> method]

\* lines 153-174: the loop over the RSS items; it raises at item failAt
RECURSIVE RssLoop(_, _, _, _, _)
RssLoop(rss_items, i, fresh_items, max_urls, failAt) ==
    IF i > Len(rss_items) \/ i = failAt THEN fresh_items
    ELSE IF rss_items[i].url = "" \/ rss_items[i].pub = "old"
         THEN RssLoop(rss_items, i + 1, fresh_items, max_urls, failAt)
    ELSE LET more == Append(fresh_items, Fresh(rss_items[i].url, "rss"))
         IN  IF Len(more) >= max_urls THEN more
             ELSE RssLoop(rss_items, i + 1, more, max_urls, failAt)

\* lines 195-206: the results of one search are appended while there is room
RECURSIVE TakeResults(_, _, _, _)
TakeResults(results, j, fresh_items, max_urls) ==
    IF j > Len(results) \/ Len(fresh_items) >= max_urls THEN fresh_items
    ELSE TakeResults(results, j + 1,
                     Append(fresh_items, Fresh(results[j], "web_search")), max_urls)

\* lines 188-206: one search per entity, of the first three, while there is
\* room; discover raises at entity failAt.  searches counts the calls made.
RECURSIVE WebLoop(_, _, _, _, _, _)
WebLoop(entities, web, e, st, max_urls, failAt) ==
    IF e > Min(3, Len(entities)) \/ Len(st.fresh_items) >= max_urls THEN st
    ELSE IF e = failAt THEN [st EXCEPT !.searches = @ + 1]
    ELSE WebLoop(entities, web, e + 1,
                 [fresh_items |-> TakeResults(web[e], 1, st.fresh_items, max_urls),
                  searches |-> st.searches + 1],
                 max_urls, failAt)

\* lines 217-223 without the test on seen_urls
DedupKeepAll(items) == SelectSeq(items, LAMBDA it : it.url # "")

\* lines 217-223: the first item of each url, items without url dropped
RECURSIVE Dedup(_)
Dedup(items) ==
    IF items = <<>> THEN <<>>
    ELSE LET front == Dedup(SubSeq(items, 1, Len(items) - 1))
             last == items[Len(items)]
         IN  IF last.url # "" /\ \A k \in 1..Len(front) : front[k].url # last.url
             THEN Append(front, last) ELSE front

\* pull_fresh_items, lines 142-226
pull_fresh_items(rss_items, rssFailAt, entities, web, webFailAt, max_urls) ==
    LET afterRss == IF rssFailAt = 0 THEN <<>>
                    ELSE RssLoop(rss_items, 1, <<>>, max_urls, rssFailAt)
        remaining_slots == max_urls - Len(afterRss)
        afterWeb == IF entities # <<>> /\ remaining_slots > 0
                    THEN WebLoop(entities, web, 1,
                                 [fresh_items |-> afterRss, searches |-> 0],
                                 max_urls, webFailAt)
                    ELSE [fresh_items |-> afterRss, searches |-> 0]
    IN  [items |-> PySlice(Dedup(afterWeb.fresh_items), max_urls),
         searches |-> afterWeb.searches,
         rss_yield |-> Len(afterRss)]

NoPull ==
    [pc |-> "idle", max_urls |-> 0, entities |-> <<>>, items |-> <<>>,
     searches |-> 0, rss_yield |-> 0]

PullInit == pf = NoPull

CallPullFreshItems ==
    /\ pf.pc = "idle"
    /\ \E rss_items \in RssResults, entities \in SeedEntities,
          max_urls \in MinUrls..MaxUrls :
          \E rssFailAt \in 0..(Len(rss_items) + 1),
             web \in [1..Min(3, Len(entities)) -> WebResults],
             webFailAt \in 0..Min(3, Len(entities)) :
             LET r == pull_fresh_items(rss_items, rssFailAt, entities, web,
                                       webFailAt, max_urls)
             IN  pf' = [pc |-> "returned", max_urls |-> max_urls,
                        entities |-> entities, items |-> r.items,
                        searches |-> r.searches, rss_yield |-> r.rss_yield]
    /\ UNCHANGED <<graphVars, ingestVars, rankVars, raptorVars, persistVars, fnVars, chunkVars, corpusVars, ownerVars, topVars>>

PullReturn ==
    /\ pf.pc = "returned"
    /\ pf' = NoPull
    /\ UNCHANGED <<graphVars, ingestVars, rankVars, raptorVars, persistVars, fnVars, chunkVars, corpusVars, ownerVars, topVars>>

PullNext ==
    \/ CallPullFreshItems
    \/ PullReturn

(***************************************************************************)
(* The planner: synth/planner.py, ensure_corpus, from the ingestion result *)
(* on.  Its build is build_nodes(incremental=True) of the RAPTOR builder   *)
(* above.                                                                  *)
(***************************************************************************)
\* ingest_result["docs"]
IngestedDocs == {0, 9, 10, 12}

\* lines 325-336; None is Absent
should_rebuild_raptor(fresh_docs, last_build_hours) ==
    \/ fresh_docs >= 10
    \/ last_build_hours # Absent /\ last_build_hours # 0 /\ last_build_hours >= 6

\* should_calls: the arguments of the calls of should_rebuild_raptor;
\* outcome: what build_nodes did, for the reader of the result
IdleCorpus ==
    [pc |-> "idle", docs |-> 0, should_calls |-> <<>>, should |-> FALSE,
     raptor_rebuilt |-> FALSE, outcome |-> "none"]

CorpusInit == ec = IdleCorpus

\* lines 353-361: ingest, ask should_rebuild_raptor, construct the builder
EnsureCorpusStart ==
    /\ ec.pc = "idle"
    /\ rb.pc = "idle"
    /\ \E docs \in IngestedDocs, ctorFails \in BOOLEAN :
          LET should == should_rebuild_raptor(docs, Absent)
              asked == [IdleCorpus EXCEPT !.docs = docs, !.should_calls = <<docs>>,
                                          !.should = should]
          IN  IF ~should
              THEN /\ ~ctorFails
                   /\ ec' = [asked EXCEPT !.pc = "done"]
              ELSE IF ctorFails
              THEN ec' = [asked EXCEPT !.pc = "done", !.outcome = "raised"]
              ELSE ec' = [asked EXCEPT !.pc = "building"]
    /\ UNCHANGED <<graphVars, ingestVars, rankVars, raptorVars, persistVars, fnVars, chunkVars, pullVars, ownerVars, topVars>>

\* line 363: builder.build_nodes(topic_hint=query, incremental=True)
EnsureCorpusBuild ==
    /\ ec.pc = "building"
    /\ BuildStart
    /\ rb'.incremental

\* what a finished build_nodes call did to the node collection; "skipped"
\* is a return before any embedding: the incremental check or no valid chunk
BuildOutcome(r) ==
    IF r.raised THEN "raised"
    ELSE IF r.wrote THEN "rebuilt"
    ELSE IF r.failed THEN "aborted"
    ELSE "skipped"

\* lines 364-367: build_nodes has returned or raised
EnsureCorpusBuilt ==
    /\ ec.pc = "building"
    /\ rb.pc = "done"
    /\ ec' = [ec EXCEPT !.pc = "done", !.raptor_rebuilt = ~rb.raised,
                        !.outcome = BuildOutcome(rb)]
    /\ rb' = IdleBuild
    /\ UNCHANGED <<mainCol, nodesCol, nextId, nBuilds, obs, graphVars, ingestVars, rankVars, persistVars, fnVars, chunkVars, pullVars, ownerVars, topVars>>

\* lines 369-375: the result has been read
EnsureCorpusReturn ==
    /\ ec.pc = "done"
    /\ ec' = IdleCorpus
    /\ UNCHANGED <<graphVars, ingestVars, rankVars, raptorVars, persistVars, fnVars, chunkVars, pullVars, ownerVars, topVars>>

CorpusNext ==
    \/ CorpusGrows
    \/ EnsureCorpusStart
    \/ EnsureCorpusBuild
    \/ BuildReset
    \/ BuildUpsert
    \/ EnsureCorpusBuilt
    \/ EnsureCorpusReturn

(***************************************************************************)
(* Entity names by character: preprocess/ner.py (normalize_ent,            *)
(* extract_entities) and GraphStore.top_entities.                          *)
(*                                                                         *)
(* A text is the sequence of its characters, ASCII ones; a node name is    *)
(* the string they join to.                                                *)
(***************************************************************************)
UpperCase == <<"A", "B", "C", "E", "F", "G", "H", "I", "N", "R", "T", "U">>

LowerCase == <<"a", "b", "c", "e", "f", "g", "h", "i", "n", "r", "t", "u">>

\* lower-case letters whose upper-case form no text here has
OtherLower == {"m", "o", "p", "s"}

Digits == {"7"}

Whitespace == {" "}

Quotes == {"'"}

\* c.isupper(), c.islower(), c.isdigit()
IsUpperChar(c) == c \in Range(UpperCase)

IsLowerChar(c) == c \in Range(LowerCase) \cup OtherLower

IsDigitChar(c) == c \in Digits

\* c.lower()
LowerChar(c) ==
    IF IsUpperChar(c) THEN LowerCase[CHOOSE i \in 1..Len(UpperCase) : UpperCase[i] = c]
    ELSE c

\* str.lower() without any effect
str_lowerKept(t) == t

\* str.lower()
str_lower(t) == [i \in 1..Len(t) |-> LowerChar(t[i])]

\* str.isupper(): a cased character, and no lower-case one
str_isupper(t) ==
    /\ \E i \in 1..Len(t) : IsUpperChar(t[i])
    /\ \A i \in 1..Len(t) : ~IsLowerChar(t[i])

\* str.strip(chars)
RECURSIVE str_strip(_, _)
str_strip(t, chars) ==
    IF t = <<>> THEN t
    ELSE IF Head(t) \in chars THEN str_strip(Tail(t), chars)
    ELSE IF t[Len(t)] \in chars THEN str_strip(SubSeq(t, 1, Len(t) - 1), chars)
    ELSE t

\* _ws.sub(" ", t): every run of whitespace becomes one blank
RECURSIVE CollapseWs(_)
CollapseWs(t) ==
    IF Len(t) < 2 THEN (IF t # <<>> /\ t[1] \in Whitespace THEN <<" ">> ELSE t)
    ELSE IF t[1] \in Whitespace /\ t[2] \in Whitespace THEN CollapseWs(Tail(t))
    ELSE IF t[1] \in Whitespace THEN <<" ">> \o CollapseWs(Tail(t))
    ELSE <<t[1]>> \o CollapseWs(Tail(t))

\* the string of a sequence of characters
RECURSIVE Join(_)
Join(t) == IF t = <<>> THEN "" ELSE Head(t) \o Join(Tail(t))

\* ner.py lines 15-22
normalize_ent(t0) ==
    LET t == CollapseWs(str_strip(str_strip(t0, Whitespace), Quotes))
    IN  IF Len(t) <= 4 /\ str_isupper(t) THEN t ELSE str_lower(t)

\* some of _STOPWORDS
_STOPWORDS == {"the", "news", "said"}

\* the entity texts the recogniser finds in a chunk
RawMentions ==
    {<<"F", "B", "I">>,
     <<"'", "F", "B", "I", "'">>,
     <<"U", "N", "H", "C", "R">>,
     <<"E", "U">>,
     <<"G", "7">>,
     <<"A", "c", "m", "e", " ", " ", "C", "o", "r", "p">>,
     <<" ", "T", "h", "e">>}

\* doc.ents of the chunks that are ingested
MentionLists ==
    {<<>>,
     <<<<" ", "T", "h", "e">>>>,
     <<<<"F", "B", "I">>, <<"A", "c", "m", "e", " ", " ", "C", "o", "r", "p">>>>,
     <<<<"A", "c", "m", "e", " ", " ", "C", "o", "r", "p">>, <<"U", "N", "H", "C", "R">>>>,
     <<<<"F", "B", "I">>, <<"'", "F", "B", "I", "'">>, <<"E", "U">>>>,
     <<<<"G", "7">>, <<"U", "N", "H", "C", "R">>>>,
     <<<<"E", "U">>, <<" ", "T", "h", "e">>, <<"A", "c", "m", "e", " ", " ", "C", "o", "r", "p">>>>}

\* lines 59-64 (and 48-54): normalise, drop short names and stop words
RECURSIVE KeptMentions(_)
KeptMentions(mentions) ==
    IF mentions = <<>> THEN <<>>
    ELSE LET normalized == normalize_ent(Head(mentions))
         IN  IF Len(normalized) >= 2 /\ Join(str_lower(normalized)) \notin _STOPWORDS
             THEN <<Join(normalized)>> \o KeptMentions(Tail(mentions))
             ELSE KeptMentions(Tail(mentions))

\* lines 66-73: dedup but keep order
RECURSIVE Uniq(_)
Uniq(ents) ==
    IF ents = <<>> THEN <<>>
    ELSE LET front == Uniq(SubSeq(ents, 1, Len(ents) - 1))
         IN  IF ents[Len(ents)] \in Range(front) THEN front
             ELSE Append(front, ents[Len(ents)])

\* extract_entities: with spaCy the names in order of appearance, without
\* it list(set(ents)), the names in any order
extract_entities(mentions, withSpacy) ==
    IF withSpacy THEN {Uniq(KeptMentions(mentions))}
    ELSE Perms(Range(KeptMentions(mentions)))

\* names given to add_chunk by a caller other than the ingestion paths
DirectLists ==
    {<<"Acme Corp">>, <<"contoso", "FBI">>, <<"Interpol", "acme corp">>}

\* the characters of a node name
NameChars ==
    {normalize_ent(m) : m \in RawMentions}
       \cup {<<"A", "c", "m", "e", " ", "C", "o", "r", "p">>,
             <<"c", "o", "n", "t", "o", "s", "o">>,
             <<"I", "n", "t", "e", "r", "p", "o", "l">>}

CharsOf(name) == CHOOSE t \in NameChars : Join(t) = name

\* some of the words of low_quality_patterns, lines 56-61
LowQualityWords == {"the", "and", "said", "new"}

\* lines 65-79
is_quality_entity(name) ==
    LET t == CharsOf(name)
        name_lower == str_lower(t)
        low == \/ Join(name_lower) \in LowQualityWords
               \/ t # <<>> /\ \A i \in 1..Len(t) : IsDigitChar(name_lower[i])
               \/ Len(t) \in {1, 2} /\ \A i \in 1..Len(t) : IsLowerChar(name_lower[i])
        has_upper == \E i \in 1..Len(t) : IsUpperChar(t[i])
    IN  /\ ~low
        /\ ~(~has_upper /\ ~str_isupper(t))
        /\ Len(t) >= 2

\* G.degree(name): a self-loop counts twice
degree(g, name) ==
    Cardinality({ed \in DOMAIN g.edges : name \in ed})
       + (IF {name} \in DOMAIN g.edges THEN 1 ELSE 0)

\* 1.0 + math.log1p(c), in thousandths
OnePlusLog1p(c) ==
    CASE c = 0 -> 1000
      [] c = 1 -> 1693
      [] c = 2 -> 2099
      [] c = 3 -> 2386
      [] c = 4 -> 2609
      [] c = 5 -> 2792
      [] c = 6 -> 2946
      [] OTHER -> 3079

\* lines 93-110: base_score * quality_multiplier, the three factors in tenths
FinalScore(g, name) ==
    LET t == CharsOf(name)
        mixed == IF (\E i \in 1..Len(t) : IsUpperChar(t[i]))
                      /\ (\E i \in 1..Len(t) : IsLowerChar(t[i])) THEN 12 ELSE 10
        words == IF \E i \in 1..Len(t) : t[i] = " " THEN 13 ELSE 10
        acronym == IF str_isupper(t) /\ 2 <= Len(t) /\ Len(t) <= 5 THEN 15 ELSE 10
    IN  degree(g, name) * OnePlusLog1p(g.nodes[name].count) * mixed * words * acronym

\* top_entities(n), lines 50-114: the names returned
top_entities(g, n) ==
    LET ents == SelectSeq(g.order, LAMBDA x : g.nodes[x].kind = "entity")
        good == SelectSeq(ents, LAMBDA x : is_quality_entity(x))
        scored == [i \in 1..Len(good) |-> [item |-> good[i], key |-> FinalScore(g, good[i])]]
    IN  PySlice(SortedItems(scored), n)

\* the values of n the callers pass (api.py 134, knowledge_tracker.py 81)
TopNs == {1, 20}

\* direct: add_chunk was called by something else than an ingestion path
IdleTop == [pc |-> "idle", n |-> 0, out |-> <<>>, direct |-> FALSE]

TopInit == te = IdleTop

\* an ingestion path, for one chunk: extract_entities, then add_chunk when
\* there is an entity
IngestChunkEntities ==
    /\ te.pc = "idle"
    /\ gHist.calls < MaxCalls
    /\ \E mentions \in MentionLists, withSpacy \in BOOLEAN, meta \in IngestMetas :
       \E entities \in extract_entities(mentions, withSpacy) :
          /\ entities # <<>>
          /\ G' = add_chunk(G, entities, meta)
          /\ gHist' = Record(gHist, entities)
    /\ UNCHANGED <<te, ingestVars, rankVars, raptorVars, persistVars, fnVars, chunkVars, pullVars, corpusVars, ownerVars>>

\* add_chunk called with names that did not go through extract_entities
DirectAddChunk ==
    /\ te.pc = "idle"
    /\ gHist.calls < MaxCalls
    /\ \E entities \in DirectLists, meta \in IngestMetas :
          /\ G' = add_chunk(G, entities, meta)
          /\ gHist' = Record(gHist, entities)
    /\ te' = [te EXCEPT !.direct = TRUE]
    /\ UNCHANGED <<ingestVars, rankVars, raptorVars, persistVars, fnVars, chunkVars, pullVars, corpusVars, ownerVars>>

CallTopEntities ==
    /\ te.pc = "idle"
    /\ \E n \in TopNs :
          te' = [te EXCEPT !.pc = "returned", !.n = n, !.out = top_entities(G, n)]
    /\ UNCHANGED <<graphVars, ingestVars, rankVars, raptorVars, persistVars, fnVars, chunkVars, pullVars, corpusVars, ownerVars>>

TopReturn ==
    /\ te.pc = "returned"
    /\ te' = [IdleTop EXCEPT !.direct = te.direct]
    /\ UNCHANGED <<graphVars, ingestVars, rankVars, raptorVars, persistVars, fnVars, chunkVars, pullVars, corpusVars, ownerVars>>

TopNext ==
    \/ IngestChunkEntities
    \/ DirectAddChunk
    \/ CallTopEntities
    \/ TopReturn

vars ==
    <<G, gHist, graphFile, req, useCE, hs, rk, mainCol, nodesCol, nextId, nBuilds,
      rb, obs, batch, fresh, lastSave, fn, chunkCol, ingested, up, pf, ec, ac, te>>

Init ==
    /\ GraphInit /\ IngestInit /\ RankInit /\ RaptorInit /\ PersistInit /\ FnInit
    /\ ChunkInit /\ PullInit /\ CorpusInit /\ OwnerInit /\ TopInit

GraphNext == AddChunkCall

SpecGraph == Init /\ [][GraphNext]_vars

SpecIngest == Init /\ [][IngestNext]_vars

SpecRank == Init /\ [][RankNext]_vars

SpecRaptor == Init /\ [][RaptorNext]_vars

SpecPersist == Init /\ [][PersistNext]_vars

SpecBatch == Init /\ [][BatchNext]_vars

SpecFn == Init /\ [][FnNext]_vars

SpecBoost == Init /\ [][BoostNext]_vars

SpecChunks == Init /\ [][ChunkNext]_vars

SpecPull == Init /\ [][PullNext]_vars

SpecCorpus == Init /\ [][CorpusNext]_vars

SpecTop == Init /\ [][TopNext]_vars

EntityNodes(g) == {n \in DOMAIN g.nodes : g.nodes[n].kind = "entity"}

\* C8: across add_chunk calls no node and no edge disappears, no
\* mention_count decreases and no edge weight decreases.
C8_AppendOnly ==
    [][/\ DOMAIN G.nodes \subseteq DOMAIN G'.nodes
       /\ DOMAIN G.edges \subseteq DOMAIN G'.edges
       /\ \A n \in DOMAIN G.nodes : G'.nodes[n].count >= G.nodes[n].count
       /\ \A k \in DOMAIN G.edges : G'.edges[k] >= G.edges[k]]_vars

C8_Witness ==
    /\ gHist.calls >= 2
    /\ \E n \in EntityNodes(G) : G.nodes[n].count >= 2
    /\ \E a, b \in EntityNodes(G) : a # b /\ has_edge(G, a, b) /\ G.edges[{a, b}] >= 2

\* C9: when no call repeated a name in its entity list, an entity's
\* mention_count is the number of calls that listed it (no node when none
\* did) and the weight of the edge {a, b} is the number of calls that listed
\* both (no edge when none did).
C9_CountsMatchCalls ==
    gHist.distinct =>
      /\ \A e \in EntityNames :
            IF gHist.with[e] = 0 THEN ~has_node(G, e)
            ELSE has_node(G, e) /\ G.nodes[e].count = gHist.with[e]
      /\ \A p \in DOMAIN gHist.both :
            IF gHist.both[p] = 0 THEN p \notin DOMAIN G.edges
            ELSE p \in DOMAIN G.edges /\ G.edges[p] = gHist.both[p]

C9_Witness ==
    /\ gHist.distinct
    /\ \E p \in DOMAIN gHist.both : gHist.both[p] >= 2 /\ G.edges[p] >= 2
    /\ \E e \in EntityNames : gHist.with[e] >= 2 /\ G.nodes[e].count >= 2
    /\ \E e \in EntityNames : gHist.with[e] = 0
    /\ \E p \in DOMAIN gHist.both : gHist.both[p] = 0

\* the same attributes on the same nodes and the same weights on the same edges
SameGraph(g1, g2) == g1.nodes = g2.nodes /\ g1.edges = g2.edges

\* the graph after the started requests' add_chunk calls, one whole call
\* after the other (the order of the calls changes no count and no weight)
RECURSIVE SerialGraph(_, _)
SerialGraph(g, ts) ==
    IF ts = {} THEN g
    ELSE LET t == CHOOSE x \in ts : \A y \in ts : x <= y
         IN  SerialGraph(add_chunk(g, req[t].entities, req[t].meta), ts \ {t})

\* C10: two concurrent ingestion requests leave the counts and weights of a
\* serial execution, and every saved file is the graph as it stood between
\* whole add_chunk calls.
C10_Serialized ==
    /\ (\A t \in Requests : req[t].pc = "done") =>
          SameGraph(G, SerialGraph(EmptyGraph, Requests))
    /\ graphFile.state = "ok" =>
          \E ts \in SUBSET {t \in Requests : req[t].pc # "idle"} :
             SameGraph(joblib_load(graphFile.g), SerialGraph(EmptyGraph, ts))

\* doc_id, or the chunk id for a hit without one
DocKey(h) == IF h.meta.doc_id # NoValue THEN h.meta.doc_id ELSE h.id

\* C1: hybrid_search(q, k) with k >= 0 returns at most k hits.
C1_AtMostK == (hs.pc = "returned" /\ hs.k >= 0) => Len(hs.hits) <= hs.k

C1_Witness ==
    /\ hs.pc = "returned" /\ hs.k >= 1
    /\ Len(hs.hits) = hs.k
    /\ Len(rk.out) > hs.k

\* C2: no two hits of one hybrid_search call share a doc_id (the chunk id
\* stands in for a missing doc_id).
C2_DistinctDocs ==
    hs.pc = "returned" =>
       \A i, j \in 1..Len(hs.hits) : i # j => DocKey(hs.hits[i]) # DocKey(hs.hits[j])

C7_FallbackFlagged ==
    (rk.called /\ rk.mode = "embed") =>
       /\ \A i \in 1..Len(rk.out) : rk.out[i].meta.fallback
       /\ hs.pc = "returned" => \A i \in 1..Len(hs.hits) : hs.hits[i].meta.fallback

\* C3: a build_nodes call in which an embedding or k-means failed leaves the
\* node collection with exactly the nodes it had before the call.
C3_FailureKeepsNodes ==
    (rb.pc = "done" /\ rb.failed) => NodeIds(nodesCol) = rb.old

\* C4: a query_nodes call during the write phase of an incremental build
\* reads the complete previous node set or the complete new one.
C4_OldOrNew ==
    (obs.taken /\ obs.during) => (obs.seen = obs.old \/ obs.seen = obs.new)

\* C5: after a build_nodes call that wrote nodes, the node collection holds
\* exactly the nodes of that call.
C5_OnlyNewNodes ==
    (rb.pc = "done" /\ rb.wrote) => NodeIds(nodesCol) = Range(rb.node_ids)

\* C11: when an ingestion batch returns, the graph file holds the graph with
\* every add_chunk the batch applied, also when a document failed after an
\* add_chunk of it had been applied.
C11_BatchPersisted ==
    (batch.pc = "returned" /\ batch.applied > 0) =>
       /\ graphFile.state = "ok"
       /\ SameGraph(GraphStore(graphFile), G)

\* C12: a GraphStore constructed on the path after save() holds the nodes,
\* the mention counts, the edges and the weights the saved store held.
C12_RoundTrip ==
    (fresh.made /\ graphFile.state = "ok") => SameGraph(fresh.G, lastSave)

C12_Witness ==
    /\ fresh.made /\ graphFile.state = "ok"
    /\ \E a, b \in EntityNodes(fresh.G) :
          a # b /\ has_edge(fresh.G, a, b) /\ fresh.G.edges[{a, b}] >= 2
    /\ \E n \in DOMAIN fresh.G.nodes : fresh.G.nodes[n].kind = "doc"
    /\ fresh.G = G

Abs(x) == IF x < 0 THEN -x ELSE x

\* C13 as stated: an incremental build_nodes skips unless expected_nodes -
\* existing_node_count exceeds max(5, 0.25 * existing_node_count), for every
\* existing_node_count >= 0, the difference equal to the threshold included.
C13_SkipUnlessExceeds ==
    fn.op = "incremental" =>
       LET existing == fn.a
           expected == Min(fn.b, MaxDocsDefault) \div ChunksPerNode
           diff == expected - existing
       IN  fn.skip <=> ~(diff > MinGrowth /\ 4 * diff > existing)

\* C13 as amended: an incremental build_nodes skips exactly when nodes exist
\* and expected_nodes - existing_node_count is below max(5, 0.25 *
\* existing_node_count), with expected_nodes = max(1, chunks fetched // 50);
\* it does not skip when no node exists or when the difference equals the
\* threshold.
C13_SkipBelowThreshold ==
    fn.op = "incremental" =>
       LET existing == fn.a
           fetched == Min(fn.b, MaxDocsDefault)
           expected == IF fetched < ChunksPerNode THEN 1
                       ELSE CHOOSE e \in 1..fetched :
                               ChunksPerNode * e <= fetched
                               /\ fetched < ChunksPerNode * (e + 1)
           diff == expected - existing
       IN  /\ fn.skip <=> (existing > 0 /\ (diff < MinGrowth \/ 4 * diff < existing))
           /\ existing = 0 => ~fn.skip
           /\ (existing > 0 /\ diff = MinGrowth /\ 4 * diff >= existing) => ~fn.skip

C13_Witness ==
    /\ fn.op = "incremental" /\ ~fn.skip
    /\ fn.a = 1 /\ fn.b = 300

\* C14: with the default arguments and 20 nodes, an incremental build_nodes
\* is skipped at 1000 chunks and triggered at 5000 chunks.
C14_SkipAt1000RunAt5000 ==
    (fn.op = "incremental" /\ fn.a = 20) =>
       /\ fn.b = 1000 => fn.skip
       /\ fn.b = 5000 => ~fn.skip

\* C15 as stated: choose_k returns 1 for n <= target, otherwise round(n /
\* max(5, target)) clamped to [1, k_max]; the result is at least 1 and never
\* exceeds k_max.
C15_ChooseKWithinKMax ==
    fn.op = "choose_k" =>
       LET n == fn.a
           target == fn.b
           k_max == fn.c
           d == Max(5, target)
       IN  /\ n <= target => fn.out = 1
           /\ n > target =>
                 \E r \in 0..n : /\ 2 * Abs(n - r * d) <= d
                                 /\ fn.out = Max(1, Min(r, k_max))
           /\ fn.out >= 1
           /\ fn.out <= k_max

\* C15 as amended: the same, with the result never above k_max when k_max is
\* at least 1, and 1 when k_max is below 1.
C15_ChooseK ==
    fn.op = "choose_k" =>
       LET n == fn.a
           target == fn.b
           k_max == fn.c
           d == Max(5, target)
       IN  /\ n <= target => fn.out = 1
           /\ n > target =>
                 \E r \in 0..n : /\ 2 * Abs(n - r * d) <= d
                                 /\ fn.out = Max(1, Min(r, k_max))
           /\ fn.out >= 1
           /\ k_max >= 1 => fn.out <= k_max
           /\ k_max < 1 => fn.out = 1

C15_Witness ==
    /\ fn.op = "choose_k"
    /\ fn.a > fn.b
    /\ fn.c >= 2 /\ fn.out = fn.c
    /\ fn.a > (fn.c + 1) * Max(5, fn.b)

\* C16: temporal_weight returns a value in [0.2, 1.5] whatever published_at
\* holds, and for either horizon a document aged 30 days weighs less than one
\* aged 0 days.
C16_WeightInRange ==
    fn.op = "temporal_weight" =>
       /\ fn.out >= 200 /\ fn.out <= 1500
       /\ fn.p = "month" =>
             fn.out < temporal_weight([EmptyMeta EXCEPT !.published_at = "fresh"],
                                      fn.flag)

\* the documents with a node linked to a query entity, with their boost
Boosted(g, qset) ==
    {d \in DocIds : has_node(g, DocNode(d)) /\ DocHits(g, DocNode(d), qset) > 0}

\* C17: doc_boosts returns at most k documents, the ones with the highest
\* boosts, listed highest boost first whether or not more than k are boosted.
C17_TopKHighestFirst ==
    [][(fn.op = "none" /\ fn'.op = "doc_boosts") =>
          LET qset == Range(fn'.ents)
              k == fn'.c
              out == fn'.boosts
              all == Boosted(G, qset)
              got == {out[i].doc : i \in 1..Len(out)}
          IN  /\ Len(out) = Min(k, Cardinality(all))
              /\ got \subseteq all /\ Cardinality(got) = Len(out)
              /\ \A d \in got, e \in all \ got :
                    DocHits(G, DocNode(e), qset) <= DocHits(G, DocNode(d), qset)
              /\ \A i, j \in 1..Len(out) : i < j => out[i].key >= out[j].key]_vars

HitIds(hits) == {hits[i].id : i \in 1..Len(hits)}

\* C18: hybrid_search with a negative k raises to its caller and returns no
\* hit list.
C18_NegativeKRaises ==
    (hs.pc = "returned" /\ hs.k < 0) => (hs.raised /\ hs.hits = <<>>)

\* C19: when the graph step fails, hybrid_search does not raise.
C19_GraphFailureTolerated ==
    (hs.pc = "returned" /\ hs.graphFailed) => ~hs.raised

\* C20: with both backends empty hybrid_search returns an empty list without
\* raising; with one backend empty it returns hits among the other's
\* candidates, as many as k allows.
C20_EmptyBackends ==
    (hs.pc = "returned" /\ ~hs.graphFailed /\ hs.k >= 0) =>
       /\ ~hs.raised
       /\ (hs.vec = {} /\ hs.bm = {}) => hs.hits = <<>>
       /\ (hs.vec = {} /\ hs.bm # {}) =>
             /\ HitIds(hs.hits) \subseteq hs.bm
             /\ Len(hs.hits) = Min(hs.k, Cardinality(hs.bm))
       /\ (hs.vec # {} /\ hs.bm = {}) =>
             /\ HitIds(hs.hits) \subseteq hs.vec
             /\ Len(hs.hits) = Min(hs.k, Cardinality(hs.vec))

C20_Witness ==
    /\ hs.pc = "returned" /\ ~hs.graphFailed /\ hs.k >= 2
    /\ hs.vec = {} /\ Cardinality(hs.bm) >= 2
    /\ Len(hs.hits) = 2

\* C21: a GraphStore constructed on a file that does not load has an empty
\* graph, and add_chunk and save work on it as on a store that began empty.
C21_CorruptFileGivesEmpty ==
    (fresh.made /\ fresh.file = "corrupt") =>
       /\ fresh.G.nodes = <<>> /\ fresh.G.edges = <<>>
       /\ \A entities \in IngestEntityLists, meta \in IngestMetas :
             LET g == add_chunk(fresh.G, entities, meta)
             IN  /\ SameGraph(g, add_chunk(EmptyGraph, entities, meta))
                 /\ SameGraph(GraphStore(save(g)), g)

C21_Witness ==
    /\ fresh.made /\ fresh.file = "corrupt"
    /\ graphFile.state = "corrupt"
    /\ lastSave.nodes # <<>> /\ lastSave.edges # <<>>

ColIds(col) == [i \in 1..Len(col) |-> col[i].id]

ColTexts(col) == {<<col[i].id, col[i].text>> : i \in 1..Len(col)}

\* C22 as stated: ingesting a document whose text is unchanged gives the ids
\* of the first ingestion and leaves the chunk store with the ids and texts
\* it had, no id twice.
C22_ReingestLeavesStore ==
    (up.pc \in {"stored", "failed"} /\ up.again) =>
       /\ up.ids = up.first
       /\ NoRepeat(ColIds(chunkCol))
       /\ ColTexts(chunkCol) = ColTexts(up.before)

\* C22: ingesting a document whose text is unchanged gives the ids of the
\* first ingestion and never stores an id twice; the chunk store keeps its
\* ids and texts unless the collection raised a dimensionality error during
\* the upsert, and then it holds no chunk but those of this document.
C22_ReingestIdempotent ==
    (up.pc \in {"stored", "failed"} /\ up.again) =>
       /\ up.ids = up.first
       /\ NoRepeat(ColIds(chunkCol))
       /\ up.err \in {"none", "other"} => ColTexts(chunkCol) = ColTexts(up.before)
       /\ up.err \in {"dimensionality", "twice"} =>
             \A i \in 1..Len(chunkCol) : chunkCol[i].id \in Range(up.ids)

C22_Witness ==
    /\ up.pc = "stored" /\ up.again /\ up.err = "none"
    /\ Len(up.ids) > 1
    /\ \E i \in 1..Len(chunkCol) : chunkCol[i].id \notin Range(up.ids)

\* C23: pull_fresh_items called with a max_urls of at least 0 returns at most
\* max_urls items; whatever max_urls, the urls returned are pairwise
\* distinct, no web-search item precedes an RSS item, and a search is made
\* only if RSS gave fewer than max_urls items and there is an entity seed.
C23_PullFreshItems ==
    pf.pc = "returned" =>
       /\ pf.max_urls >= 0 => Len(pf.items) <= pf.max_urls
       /\ NoRepeat([i \in 1..Len(pf.items) |-> pf.items[i].url])
       /\ \A i, j \in 1..Len(pf.items) :
             (pf.items[i].discovery_method = "web_search"
                /\ pf.items[j].discovery_method = "rss") => j < i
       /\ pf.searches > 0 => (pf.rss_yield < pf.max_urls /\ pf.entities # <<>>)

C23_Witness ==
    /\ pf.pc = "returned"
    /\ Len(pf.items) = pf.max_urls
    /\ pf.searches > 1
    /\ \E i, j \in 1..Len(pf.items) :
          /\ pf.items[i].discovery_method = "rss"
          /\ pf.items[j].discovery_method = "web_search"

\* C24: ensure_corpus calls should_rebuild_raptor once, with the number of
\* ingested documents, and reports raptor_rebuilt = true only if the node
\* collection was rebuilt: not when should_rebuild_raptor said no, when the
\* incremental check skipped the build or when the build aborted.
C24_RebuiltOnlyIfWritten ==
    ec.pc = "done" =>
       /\ ec.should_calls = <<ec.docs>>
       /\ ec.raptor_rebuilt => (ec.should /\ ec.outcome = "rebuilt")

\* C25: no step of build_nodes, in either mode and whatever its outcome,
\* changes the chunk collection.
C25_BuildKeepsChunks ==
    [][rb' # rb => mainCol' = mainCol]_vars

\* C28: when build_nodes reaches its upsert the four lists have one length
\* and position i of each comes from the same cluster.
C28_ListsAligned ==
    rb.pc = "upsert" =>
       /\ Len(rb.node_texts) = Len(rb.node_ids)
       /\ Len(rb.node_metas) = Len(rb.node_ids)
       /\ Len(rb.node_embs) = Len(rb.node_ids)
       /\ \A i \in 1..Len(rb.node_ids) :
             /\ rb.node_texts[i] = rb.node_metas[i]
             /\ i <= Len(rb.node_embs) => rb.node_embs[i] = rb.node_texts[i]

\* the entry of the reranked list a hit was made from: it still has the
\* weights of lines 63-64
RankedOfHit(h) == CHOOSE c \in Range(rk.out) : c.id = h.id

\* a has no weight above b's and one below
LighterThan(a, b) ==
    /\ WeightOr1(a.meta.temp_w) <= WeightOr1(b.meta.temp_w)
    /\ WeightOr1(a.meta.graph_w) <= WeightOr1(b.meta.graph_w)
    /\ \/ WeightOr1(a.meta.temp_w) < WeightOr1(b.meta.temp_w)
       \/ WeightOr1(a.meta.graph_w) < WeightOr1(b.meta.graph_w)

\* C26: of two candidates with the same rerank score, the one with the
\* smaller temporal or graph weight is not placed above the other (as a hit
\* before it, or as a hit when the other is cut off), whatever the sign of
\* the score.
C26_MonotoneInWeights ==
    (hs.pc = "returned" /\ ~hs.raised /\ hs.k >= 0) =>
       \A i \in 1..Len(hs.hits) : \A c \in Range(rk.out) :
          (c.score = hs.hits[i].score /\ \A m \in 1..i : hs.hits[m].id # c.id) =>
             ~LighterThan(RankedOfHit(hs.hits[i]), c)

\* C27: whatever the entity lists add_chunk was called with, the graph has
\* no edge from a node to itself.
C27_NoSelfEdge == \A ed \in DOMAIN G.edges : Cardinality(ed) = 2

\* C30: a second add_chunk call with the chunk_id, the entity list and the
\* metadata of the call before it adds one more to the mention_count of
\* every listed entity and to the weight of every co-mention edge.
C30_SecondCallCountsAgain ==
    ac.again =>
       /\ \A e \in Range(ac.entities) :
             /\ has_node(ac.before, e)
             /\ G.nodes[e].count = ac.before.nodes[e].count + 1
       /\ \A i, j \in 1..Len(ac.entities) :
             i < j => /\ has_edge(ac.before, ac.entities[i], ac.entities[j])
                      /\ G.edges[{ac.entities[i], ac.entities[j]}]
                            = ac.before.edges[{ac.entities[i], ac.entities[j]}] + 1

C30_Witness ==
    /\ ac.again
    /\ Len(ac.entities) = 2
    /\ G.edges[{ac.entities[1], ac.entities[2]}] = 2

\* C29: every name top_entities returns has an upper-case character, and
\* on a graph filled by the ingestion paths alone every name it returns is
\* all upper case and at most 4 characters long.
C29_TopEntitiesUpperCase ==
    te.pc = "returned" =>
       \A i \in 1..Len(te.out) :
          LET t == CharsOf(te.out[i])
          IN  /\ \E j \in 1..Len(t) : IsUpperChar(t[j])
              /\ ~te.direct => (str_isupper(t) /\ Len(t) <= 4)

C29_Witness ==
    /\ te.pc = "returned" /\ ~te.direct
    /\ te.out # <<>> /\ Len(te.out) < te.n
    /\ \E x \in EntityNodes(G) :
          /\ x \notin Range(te.out)
          /\ \A i \in 1..Len(te.out) :
                /\ degree(G, x) > degree(G, te.out[i])
                /\ G.nodes[x].count > G.nodes[te.out[i]].count

====
